---------------------------- MODULE Spec2Model ----------------------------
(***************************************************************************)
(* WhatsApp groups monitor: message ingestion (message_handler.py), the    *)
(* command router (commands.py), the summarization engine and delivery     *)
(* coordinator (summarizer.py), the scheduler trigger (scheduler.py) and   *)
(* the three tables of models.py.                                          *)
(*                                                                         *)
(* Strings are sequences of tokens: a token is one character ("+", "-",    *)
(* "@", " ", a digit) or an indivisible run of letters ("sikum", "g.us").  *)
(* Times are integers; a calendar day lasts DayLen time units.             *)
(***************************************************************************)
EXTENDS Integers, Sequences, FiniteSets, TLC

(***************************************************************************)
(* Bounds of the model.                                                    *)
(***************************************************************************)
MaxTime == 2
DayLen == 2
MaxTasks == 2
MaxDeliveries == 2
MaxRuns == 2

(***************************************************************************)
(* Configuration (config.py) and fixed program values.                     *)
(***************************************************************************)
\* settings.minimum_messages_for_summary (default 15), scaled down
MinimumMessagesForSummary == 2
\* settings.max_messages_per_summary (default 1000), scaled down
MaxMessagesPerSummary == 2
\* stop_after_attempt(3) on generate_summary
GenerateAttempts == 3
\* settings.summary_recipient_phone, default "+972542607800"
SummaryRecipientPhone == <<"+", "9">>
\* MessageHandler._my_jid, the bot's own identity
MyJid == <<"b", "@", "s.whatsapp.net">>

(***************************************************************************)
(* String helpers.                                                         *)
(***************************************************************************)
Min(S) == CHOOSE x \in S : \A y \in S : x <= y

Contains(s, tok) == \E i \in 1..Len(s) : s[i] = tok

\* str.split("@")[0]
SplitAtFirst(s) ==
    LET at == {i \in 1..Len(s) : s[i] = "@"}
    IN  IF at = {} THEN s ELSE SubSeq(s, 1, Min(at) - 1)

EndsWith(s, suf) ==
    /\ Len(s) >= Len(suf)
    /\ SubSeq(s, Len(s) - Len(suf) + 1, Len(s)) = suf

StartsWith(s, pre) ==
    /\ Len(s) >= Len(pre)
    /\ SubSeq(s, 1, Len(pre)) = pre

\* whatsapp.normalize_jid
\* mutant of normalize_jid: the hyphen is looked for in the whole identifier
normalize_jid_any_hyphen(jid) ==
    LET j == SplitAtFirst(jid)
    IN  IF Contains(jid, "-")
        THEN j \o <<"@", "g.us">>
        ELSE j \o <<"@", "s.whatsapp.net">>

normalize_jid(jid) ==
    LET j == SplitAtFirst(jid)
    IN  IF Contains(j, "-")
        THEN j \o <<"@", "g.us">>
        ELSE j \o <<"@", "s.whatsapp.net">>

\* utils.format_phone_number
format_phone_number(phone) ==
    LET p == IF Len(phone) > 0 /\ phone[1] = "+" THEN phone ELSE <<"+">> \o phone
    IN  SelectSeq(p, LAMBDA tok : tok # " " /\ tok # "-")

\* GreenAPIClient.send_message: the chat id the message is sent to
ChatIdOf(phone) ==
    LET c == IF Contains(phone, "@") THEN SplitAtFirst(phone) ELSE phone
    IN  IF ~EndsWith(c, <<"@", "c.us">>) /\ ~EndsWith(c, <<"@", "g.us">>)
        THEN c \o <<"@", "c.us">>
        ELSE c

\* str.lower
LowerTok(tok) == IF tok = "SIKUM" THEN "sikum" ELSE IF tok = "STATS" THEN "stats" ELSE tok
Lower(s) == [i \in 1..Len(s) |-> LowerTok(s[i])]

\* str.strip
RECURSIVE LStrip(_)
LStrip(s) == IF Len(s) > 0 /\ s[1] = " " THEN LStrip(Tail(s)) ELSE s
RECURSIVE RStrip(_)
RStrip(s) == IF Len(s) > 0 /\ s[Len(s)] = " " THEN RStrip(SubSeq(s, 1, Len(s) - 1)) ELSE s
Strip(s) == RStrip(LStrip(s))


(***************************************************************************)
(* Inputs: identifiers and texts a notification may carry.                 *)
(***************************************************************************)
AuthorizedSender == <<"+", "9", "@", "s.whatsapp.net">>
InboundSender == <<"9", "@", "c.us">>
OtherSender == <<"7", "@", "c.us">>
Senders == {AuthorizedSender, InboundSender, OtherSender, MyJid}

ChatG1 == <<"1", "-", "1", "@", "g.us">>
ChatG2 == <<"1", "-", "2", "@", "g.us">>
ChatG3 == <<"1", "-", "3", "@", "g.us">>
GroupChats == {ChatG1, ChatG2}

MsgIds == {"m1", "m2"}

Texts == {<<"sikum">>, <<" ", "SIKUM", " ">>, <<"sikum", "x">>, <<"stats">>, <<"hi">>}

Times == 0..MaxTime

(***************************************************************************)
(* State.                                                                  *)
(*   groups, messages, logs : the committed rows of the three tables of    *)
(*       models.py, in insertion order (a row's index is its primary key)  *)
(*   task     : the process_message coroutines in flight                   *)
(*   run      : the generate_and_send_daily_summaries coroutines; run 0 is *)
(*       the scheduler's, run t is the one awaited by task t               *)
(*   outbox   : the messages handed to GreenAPIClient.send_message that    *)
(*       were sent                                                         *)
(*   now      : the wall clock read by datetime.now()                      *)
(*   env      : the environment, fixed from the start: the kinds of         *)
(*       notification it delivers, how many process_message coroutines it  *)
(*       keeps in flight, whether it lets batch runs overlap               *)
(*   nDeliv, nRuns : how many notifications and batch runs have started    *)
(*   lastDrop : how process_message ended for the last notification that   *)
(*       did not reach the store: why it was dropped, or "handled" when a  *)
(*       command handler has returned                                      *)
(*   emb      : MessageHandler._embedding_queue and its consumer: the      *)
(*       items waiting (primary keys of Message rows), the item the        *)
(*       consumer holds, the rows that carry an embedding, and every item  *)
(*       ever put                                                          *)
(*   inbox    : the hand-off from the collaborator's callback thread:      *)
(*       GreenAPIClient._loop and the coroutines submitted to the loop     *)
(*       that have not started                                             *)
(***************************************************************************)
VARIABLES groups, messages, logs, task, run, outbox, now, env, nDeliv, nRuns,
          lastDrop, emb, inbox

vars == <<groups, messages, logs, task, run, outbox, now, env, nDeliv, nRuns,
          lastDrop, emb, inbox>>

Tasks == 1..MaxTasks
Runners == {0} \cup Tasks

NoText == <<>>
NoJid == <<>>

\* whatsapp.WhatsAppMessage, as _parse_message_data builds it
NoMessage == [message_id |-> "", group_jid |-> NoJid, sender_jid |-> NoJid,
              content |-> NoText, message_type |-> "text", timestamp |-> 0]

\* a dict without keys, a dict of one key, and dict.get(key, default); a
\* dict is the set of its items
EmptyDict == {}
Dict(key, value) == {<<key, value>>}
DictGet(d, key, default) ==
    IF \E e \in d : e[1] = key THEN (CHOOSE e \in d : e[1] = key)[2] ELSE default

\* Group.group_name: None, and the empty string
NoName == "None"
EmptyName == ""

IdleTask == [pc |-> "idle", msg |-> NoMessage, born |-> 0]

\* asyncio.Queue() of line 28, empty, and the consumer waiting in get()
IdleEmb == [queue |-> <<>>, cur |-> 0, embedded |-> {}, put |-> <<>>]

\* start_receiving has captured the running loop; nothing is submitted
IdleInbox == [loop |-> TRUE, pending |-> <<>>]

\* the locals of one generate_and_send_daily_summaries call:
\*   force, groups (the Group objects loaded at line 177), idx (the loop of
\*   line 191), msgs and attempt (summarize_group for groups[idx]), data
\*   (summaries_data), k (the loop of line 250), pend and psync (the changes
\*   held by the session and not committed), sendok (what the consolidated
\*   send did), result (what the call returned);
\*   out and sel record, per enumerated group, how summarize_group ended and
\*   which messages its window query returned; wrote records the primary
\*   keys of the summary rows the call added at lines 122-131
IdleRun == [pc |-> "idle", force |-> FALSE, groups |-> <<>>, idx |-> 0,
            msgs |-> <<>>, attempt |-> 0, data |-> <<>>, out |-> <<>>,
            sel |-> <<>>, k |-> 0, pend |-> {}, psync |-> FALSE, syncAt |-> 0,
            sendok |-> "none", result |-> "none", wrote |-> {}]

\* models.Group row
NamedGroupRow(jid, name, managed, sync) ==
    [group_jid |-> jid, group_name |-> name, managed |-> managed,
     last_summary_sync |-> sync]

\* a Group row whose name was never set
GroupRow(jid, managed, sync) == NamedGroupRow(jid, NoName, managed, sync)

\* models.Message row
MessageRow(m) ==
    [message_id |-> m.message_id, group_jid |-> m.group_jid, timestamp |-> m.timestamp,
     sender_jid |-> m.sender_jid, message_type |-> m.message_type]

\* a text message stored earlier, of a sender other than the bot
StoredMessage(id, jid, ts) ==
    [message_id |-> id, group_jid |-> jid, timestamp |-> ts,
     sender_jid |-> normalize_jid(OtherSender), message_type |-> "text"]

\* models.SummaryLog row
SummaryLogRow(jid, text, count, start, end, err) ==
    [group_jid |-> jid, summary_text |-> text, message_count |-> count,
     start_time |-> start, end_time |-> end, sent_successfully |-> FALSE,
     error_message |-> err]

\* a store left by an earlier life of the process: a group no message has
\* arrived for since, and a group an operator has set unmanaged
StoredGroups ==
    << GroupRow(normalize_jid(ChatG2), TRUE, 0), GroupRow(normalize_jid(ChatG3), FALSE, 0) >>

InitCommon ==
    /\ logs = <<>>
    /\ task = [t \in Tasks |-> IdleTask]
    /\ run = [r \in Runners |-> IdleRun]
    /\ outbox = <<>>
    /\ now = 0
    /\ nDeliv = 0
    /\ nRuns = 0
    /\ lastDrop = "none"
    /\ emb = IdleEmb
    /\ inbox = IdleInbox


(***************************************************************************)
(* The clock.                                                              *)
(***************************************************************************)
Tick ==
    /\ now < MaxTime
    /\ now' = now + 1
    /\ UNCHANGED <<groups, messages, logs, task, run, outbox, env, emb, inbox, nDeliv, nRuns,
                   lastDrop>>

(***************************************************************************)
(* The outbound collaborator.  An entry of outbox is one message that      *)
(* GreenAPIClient.send_message sent: its chat id, its kind and, for a      *)
(* consolidated summary, its sections.                                     *)
(***************************************************************************)
Sent(phone, kind, sections) ==
    [to |-> ChatIdOf(phone), kind |-> kind, sections |-> sections]

(***************************************************************************)
(* Notifications handed to MessageHandler.process_message.                 *)
(***************************************************************************)
\* formatted_data: info.id.id, info.messageSource, info.timestamp and the
\* message dict, of which keys are the keys it holds
FormattedData(id, chat, sender, ts, keys, text, extended, image, video, document) ==
    [id |-> id, groupJID |-> chat, senderJID |-> sender, timestamp |-> ts,
     keys |-> keys, conversation |-> text, extendedTextMessage |-> extended,
     imageMessage |-> image, videoMessage |-> video, documentMessage |-> document]

\* a notification whose message dict holds a text under "conversation" only
Notification(id, chat, sender, text, ts) ==
    FormattedData(id, chat, sender, ts, {"conversation"}, text,
                  EmptyDict, EmptyDict, EmptyDict, EmptyDict)

GroupNotifications ==
    {Notification(id, chat, sender, <<"hi">>, ts) :
        id \in MsgIds, chat \in GroupChats, sender \in {OtherSender}, ts \in 0..now}

DirectNotifications ==
    {Notification("d1", NoJid, sender, text, now) : sender \in Senders, text \in Texts}

BrokenNotifications ==
    { Notification("", ChatG1, OtherSender, <<"hi">>, now),
      Notification("m1", ChatG1, OtherSender, NoText, now),
      Notification("m1", ChatG1, MyJid, <<"hi">>, now) }

SikumNotifications ==
    {Notification("d1", NoJid, AuthorizedSender, <<"sikum">>, now)}

\* the body of an incomingMessageReceived notification: idMessage, senderData
\* and the parts of messageData, a part that is missing being an empty dict
Body(id, chat, sender, ts, text, extended, image, video, document) ==
    [idMessage |-> id, chatId |-> chat, sender |-> sender, timestamp |-> ts,
     textMessageData |-> text, extendedTextMessageData |-> extended,
     imageMessageData |-> image, videoMessageData |-> video,
     documentMessageData |-> document]

\* GreenAPIClient._handle_incoming_message, lines 89-121: formatted_data
handle_incoming_message(body) ==
    LET chat_id == body.chatId
        is_group == EndsWith(chat_id, <<"@", "g.us">>)
        plain == DictGet(body.textMessageData, "textMessage", NoText)
        quoted == DictGet(body.extendedTextMessageData, "text", NoText)
        text == IF plain # NoText THEN plain
                ELSE IF quoted # NoText THEN quoted
                ELSE NoText
    IN  FormattedData(body.idMessage, IF is_group THEN chat_id ELSE NoJid,
                      body.sender, body.timestamp,
                      {"conversation", "extendedTextMessage", "imageMessage",
                       "videoMessage", "documentMessage"},
                      text, body.extendedTextMessageData, body.imageMessageData,
                      body.videoMessageData, body.documentMessageData)

\* a group chat whose identifier holds no hyphen, and a direct chat
ChatG9 == <<"9", "@", "g.us">>
ChatD7 == <<"7", "@", "c.us">>

Bodies ==
    {Body(id, chat, OtherSender, now, text, extended, image, video, document) :
        id \in {"m1", ""},
        chat \in {ChatG1, ChatG9, ChatD7},
        text \in {EmptyDict, Dict("textMessage", <<"hi">>), Dict("textMessage", NoText)},
        extended \in {EmptyDict, Dict("text", <<"quoted">>)},
        image \in {EmptyDict, Dict("caption", <<"picture">>)},
        video \in {EmptyDict, Dict("caption", <<"film">>)},
        document \in {EmptyDict, Dict("fileName", <<"file">>)}}

BodyNotifications == {handle_incoming_message(body) : body \in Bodies}

\* the name the provider reports for a chat (senderData.chatName)
ChatName(chat) == IF chat = ChatG1 THEN "one" ELSE "two"

\* api.webhook, lines 530-545: formatted_data with the chat's name under
\* info.messageSource.groupName
WithGroupName(data, name) ==
    [f \in DOMAIN data \cup {"groupName"} |->
        IF f = "groupName" THEN name ELSE data[f]]

NamedNotifications ==
    {WithGroupName(Notification(id, chat, OtherSender, <<"hi">>, now), ChatName(chat)) :
        id \in MsgIds, chat \in GroupChats}

\* group messages of another sender and of the bot, whose identifier arrives
\* in the provider's form
BotSender == <<"b", "@", "c.us">>

BotNotifications ==
    {Notification(id, ChatG2, sender, <<"hi">>, now) :
        id \in MsgIds, sender \in {OtherSender, BotSender}}

\* chats and senders that arrive with a suffix other than the canonical one
JidChats ==
    { <<"1", "-", "2", "@", "anything">>, <<"1", "-", "2", "@", "s.whatsapp.net">>,
      <<"9", "@", "g.us">>, <<"9", "@", "my", "-", "host">> }

JidSenders == { <<"7", "@", "anything">>, <<"7">>, <<"7", "@", "a", "@", "b">> }

JidNotifications ==
    {Notification(id, chat, sender, <<"hi">>, now) :
        id \in MsgIds, chat \in JidChats, sender \in JidSenders}

\* group messages stamped by a clock that may be ahead of the local one
AheadNotifications ==
    {Notification("m2", chat, OtherSender, <<"hi">>, ts) :
        chat \in GroupChats, ts \in 0..(now + 1)}

\* direct messages of the authorized sender with texts of up to three pieces
KeywordPieces == {" ", "sikum", "SIKUM", "/summary", "stats", "x"}

KeywordTexts ==
    UNION {[1..n -> KeywordPieces] : n \in 1..3}

KeywordNotifications ==
    {Notification("d1", NoJid, AuthorizedSender, text, now) : text \in KeywordTexts}

\* group messages of the authorized sender whose text is a command keyword
GroupCommandNotifications ==
    {Notification("m2", chat, AuthorizedSender, text, now) :
        chat \in GroupChats, text \in {<<"sikum">>, <<"stats">>}}

\* text messages and captioned images as WebhookHandler.handle_webhook passes
\* them on: the payload holds the one key of its kind
MediaNotifications ==
    {FormattedData(id, ChatG1, OtherSender, now, {"conversation"}, <<"hi">>,
                   EmptyDict, EmptyDict, EmptyDict, EmptyDict) : id \in MsgIds}
    \cup {FormattedData(id, ChatG1, OtherSender, now, {"imageMessage"}, NoText,
                        EmptyDict, Dict("caption", <<"picture">>), EmptyDict, EmptyDict) :
             id \in MsgIds}

Notifications ==
    (IF "group" \in env.kinds THEN GroupNotifications ELSE {})
    \cup (IF "media" \in env.kinds THEN MediaNotifications ELSE {})
    \cup (IF "keyword" \in env.kinds THEN KeywordNotifications ELSE {})
    \cup (IF "groupcmd" \in env.kinds THEN GroupCommandNotifications ELSE {})
    \cup (IF "body" \in env.kinds THEN BodyNotifications ELSE {})
    \cup (IF "bot" \in env.kinds THEN BotNotifications ELSE {})
    \cup (IF "named" \in env.kinds THEN NamedNotifications ELSE {})
    \cup (IF "ahead" \in env.kinds THEN AheadNotifications ELSE {})
    \cup (IF "jid" \in env.kinds THEN JidNotifications ELSE {})
    \cup (IF "sikum" \in env.kinds THEN SikumNotifications ELSE {})
    \cup (IF "direct" \in env.kinds THEN DirectNotifications ELSE {})
    \cup (IF "broken" \in env.kinds THEN BrokenNotifications ELSE {})

\* MessageHandler._parse_message_data; NoMessage stands for None
\* _parse_message_data, lines 104-120: the content and the message type
ContentOf(data) ==
    IF "conversation" \in data.keys
    THEN [content |-> data.conversation, message_type |-> "text"]
    ELSE IF "extendedTextMessage" \in data.keys
    THEN [content |-> DictGet(data.extendedTextMessage, "text", NoText),
          message_type |-> "text"]
    ELSE IF "imageMessage" \in data.keys
    THEN [content |-> DictGet(data.imageMessage, "caption", <<"[Image]">>),
          message_type |-> "image"]
    ELSE IF "videoMessage" \in data.keys
    THEN [content |-> DictGet(data.videoMessage, "caption", <<"[Video]">>),
          message_type |-> "video"]
    ELSE IF "documentMessage" \in data.keys
    THEN [content |-> <<"[Document]">>, message_type |-> "document"]
    ELSE [content |-> NoText, message_type |-> "text"]

parse_message_data(data) ==
    IF data.id = "" THEN NoMessage
    ELSE IF ContentOf(data).content = NoText THEN NoMessage
    ELSE [message_id |-> data.id,
          group_jid |-> IF data.groupJID # NoJid THEN normalize_jid(data.groupJID) ELSE NoJid,
          sender_jid |-> normalize_jid(data.senderJID),
          content |-> ContentOf(data).content,
          message_type |-> ContentOf(data).message_type,
          timestamp |-> data.timestamp]

(***************************************************************************)
(* The command router (commands.py).                                       *)
(***************************************************************************)
\* CommandHandler.__init__: self.authorized_phone
authorized_phone == normalize_jid(SummaryRecipientPhone)

\* CommandHandler.commands, in insertion order: keyword, handler
Commands ==
    << <<"sikum", "sikum">>, <<"/summarize", "sikum">>, <<"/summary", "sikum">>,
       <<"summary", "sikum">>, <<"summarize", "sikum">>, <<"stats", "stats">> >>

\* the test of process_command's loop for one keyword
\* mutant of KeywordMatches: any text beginning with the keyword matches
KeywordMatchesPrefix(message_lower, keyword) == StartsWith(message_lower, <<keyword>>)

KeywordMatches(message_lower, keyword) ==
    \/ message_lower = <<keyword>>
    \/ StartsWith(message_lower, <<keyword, " ">>)

\* mutant of IsAuthorized: every sender passes
IsAuthorizedAnyone(sender_jid) == TRUE

\* process_command's authorization test
IsAuthorized(sender_jid) == normalize_jid(sender_jid) = authorized_phone

\* process_command: the handler it invokes, "none" when it returns False
CommandOf(sender_jid, message_text) ==
    LET message_lower == Lower(Strip(message_text))
        hits == {i \in 1..Len(Commands) : KeywordMatches(message_lower, Commands[i][1])}
    IN  IF ~IsAuthorized(sender_jid) THEN "none"
        ELSE IF hits = {} THEN "none"
        ELSE Commands[Min(hits)][2]

(***************************************************************************)
(* Ingestion (message_handler.py).                                         *)
(***************************************************************************)
NoRunActive == \A r \in Runners : run[r].pc = "idle"

MayStartRun == nRuns < MaxRuns /\ (env.overlap \/ NoRunActive)

StartedRun(force) == [IdleRun EXCEPT !.pc = "enum", !.force = force]

\* process_message returns without touching the store
Drop(why) ==
    /\ lastDrop' = why
    /\ UNCHANGED <<groups, messages, logs, task, run, outbox, nRuns>>

\* the except branch of a command handler: a best-effort error notification
\* process_command, lines 67-69: the handler has returned and the caller is
\* told that the message was a command
Handled == lastDrop' = "handled"

\* mutant of ErrorNotified: a failed error notification leaves the handler
ErrorNotifiedPropagating(sender_jid) ==
    \/ outbox' = Append(outbox, Sent(sender_jid, "error", <<>>)) /\ Handled
    \/ outbox' = outbox /\ lastDrop' = "raised"

ErrorNotified(sender_jid) ==
    /\ \/ outbox' = Append(outbox, Sent(sender_jid, "error", <<>>))
       \/ outbox' = outbox
    /\ Handled

\* mutant of HandleSikum: the forced run is started without the acknowledgment
HandleSikumNoAck(t, wa) ==
    /\ MayStartRun
    /\ run' = [run EXCEPT ![t] = StartedRun(TRUE)]
    /\ nRuns' = nRuns + 1
    /\ task' = [task EXCEPT ![t] = [pc |-> "cmdrun", msg |-> wa, born |-> 0]]
    /\ UNCHANGED <<groups, messages, logs, outbox, lastDrop>>

\* _handle_sikum_command up to its first suspension: the acknowledgment, then
\* the forced batch run is entered
HandleSikum(t, wa) ==
    /\ MayStartRun
    /\ \/ /\ outbox' = Append(outbox, Sent(wa.sender_jid, "ack", <<>>))
          /\ run' = [run EXCEPT ![t] = StartedRun(TRUE)]
          /\ nRuns' = nRuns + 1
          /\ task' = [task EXCEPT ![t] = [pc |-> "cmdrun", msg |-> wa, born |-> 0]]
          /\ UNCHANGED lastDrop
       \/ /\ ErrorNotified(wa.sender_jid)
          /\ UNCHANGED <<run, nRuns, task>>
    /\ UNCHANGED <<groups, messages, logs>>

InFlight == Cardinality({t \in Tasks : task[t].pc # "idle"})

\* mutant of FromSelf: no sender is taken for the bot
FromSelfNever(wa) == FALSE

\* process_message, lines 62-65: the sender is the bot itself
FromSelf(wa) == wa.sender_jid = MyJid

\* mutant of Process: a direct message that is no command is saved as well
ProcessSavingDirect(t, data) ==
    /\ task[t].pc = "idle"
    /\ \A u \in Tasks : u < t => task[u].pc # "idle"
    /\ InFlight < env.conc
    /\ UNCHANGED <<now, env, emb>>
    /\ LET wa == parse_message_data(data)
           cmd == CommandOf(wa.sender_jid, wa.content)
       IN  IF wa = NoMessage THEN Drop("unparsed")
           ELSE IF FromSelf(wa) THEN Drop("self")
           ELSE IF wa.group_jid = NoJid /\ cmd = "sikum" THEN HandleSikum(t, wa)
           ELSE IF wa.group_jid = NoJid /\ cmd = "stats"
           THEN /\ task' = [task EXCEPT ![t] = [pc |-> "stats", msg |-> wa, born |-> 0]]
                /\ UNCHANGED <<groups, messages, logs, run, outbox, nRuns, lastDrop>>
           ELSE /\ task' = [task EXCEPT ![t] = [pc |-> "check", msg |-> wa, born |-> 0]]
                /\ UNCHANGED <<groups, messages, logs, run, outbox, nRuns, lastDrop>>

\* mutant of Process: the command check does not ask for a direct message
ProcessGroupCommands(t, data) ==
    /\ task[t].pc = "idle"
    /\ \A u \in Tasks : u < t => task[u].pc # "idle"
    /\ InFlight < env.conc
    /\ UNCHANGED <<now, env, emb>>
    /\ LET wa == parse_message_data(data)
           cmd == CommandOf(wa.sender_jid, wa.content)
       IN  IF wa = NoMessage THEN Drop("unparsed")
           ELSE IF FromSelf(wa) THEN Drop("self")
           ELSE IF cmd = "sikum" THEN HandleSikum(t, wa)
           ELSE IF cmd = "stats"
           THEN /\ task' = [task EXCEPT ![t] = [pc |-> "stats", msg |-> wa, born |-> 0]]
                /\ UNCHANGED <<groups, messages, logs, run, outbox, nRuns, lastDrop>>
           ELSE IF wa.group_jid = NoJid
           THEN Drop(IF IsAuthorized(wa.sender_jid) THEN "nocommand" ELSE "unauthorized")
           ELSE /\ task' = [task EXCEPT ![t] = [pc |-> "check", msg |-> wa, born |-> 0]]
                /\ UNCHANGED <<groups, messages, logs, run, outbox, nRuns, lastDrop>>

\* process_message up to its first suspension; the coroutine takes the first
\* free slot
Process(t, data) ==
    /\ task[t].pc = "idle"
    /\ \A u \in Tasks : u < t => task[u].pc # "idle"
    /\ InFlight < env.conc
    /\ UNCHANGED <<now, env, emb>>
    /\ LET wa == parse_message_data(data)
       IN  IF wa = NoMessage THEN Drop("unparsed")
           ELSE IF FromSelf(wa) THEN Drop("self")
           ELSE IF wa.group_jid = NoJid
           THEN LET cmd == CommandOf(wa.sender_jid, wa.content)
                IN  IF cmd = "sikum" THEN HandleSikum(t, wa)
                    ELSE IF cmd = "stats"
                    THEN /\ task' = [task EXCEPT ![t] = [pc |-> "stats", msg |-> wa, born |-> 0]]
                         /\ UNCHANGED <<groups, messages, logs, run, outbox, nRuns, lastDrop>>
                    ELSE Drop(IF IsAuthorized(wa.sender_jid) THEN "nocommand" ELSE "unauthorized")
           ELSE /\ task' = [task EXCEPT ![t] = [pc |-> "check", msg |-> wa, born |-> 0]]
                /\ UNCHANGED <<groups, messages, logs, run, outbox, nRuns, lastDrop>>

\* one notification reaches process_message on the loop
Deliver(t, data) ==
    /\ nDeliv < MaxDeliveries
    /\ nDeliv' = nDeliv + 1
    /\ UNCHANGED inbox
    /\ Process(t, data)

\* _handle_stats_command: the two counts, then the reply
StatsReply(t) ==
    /\ task[t].pc = "stats"
    /\ \/ outbox' = Append(outbox, Sent(task[t].msg.sender_jid, "stats", <<>>)) /\ Handled
       \/ ErrorNotified(task[t].msg.sender_jid)
    /\ task' = [task EXCEPT ![t] = IdleTask]
    /\ UNCHANGED <<groups, messages, logs, run, now, env, emb, inbox, nDeliv, nRuns>>

MessageExists(id) == \E i \in 1..Len(messages) : messages[i].message_id = id

GroupExists(jid) == \E i \in 1..Len(groups) : groups[i].group_jid = jid

\* _save_message, lines 146-153: the existence check
SaveCheck(t) ==
    /\ task[t].pc = "check"
    /\ task' = [task EXCEPT ![t] =
                  IF MessageExists(task[t].msg.message_id)
                  THEN IdleTask
                  ELSE [@ EXCEPT !.pc = "ensure"]]
    /\ UNCHANGED <<groups, messages, logs, run, outbox, now, env, emb, inbox, nDeliv, nRuns,
                   lastDrop>>

\* _ensure_group_exists, lines 185-194: the lookup, and the new Group object
EnsureGroup(t) ==
    /\ task[t].pc = "ensure"
    /\ task' = [task EXCEPT ![t] =
                  IF GroupExists(task[t].msg.group_jid)
                  THEN [@ EXCEPT !.pc = "insert"]
                  ELSE [@ EXCEPT !.pc = "mkgroup", !.born = now]]
    /\ UNCHANGED <<groups, messages, logs, run, outbox, now, env, emb, inbox, nDeliv, nRuns,
                   lastDrop>>

\* the unique constraint of Group.group_jid (models.py line 15)
GroupInsertAllowed(jid) == ~GroupExists(jid)

\* _ensure_group_exists, line 195: the commit of the new group; a violated
\* constraint raises, and process_message logs and drops the message
CreateGroup(t) ==
    /\ task[t].pc = "mkgroup"
    /\ IF GroupInsertAllowed(task[t].msg.group_jid)
       THEN /\ groups' = Append(groups, GroupRow(task[t].msg.group_jid, TRUE, task[t].born))
            /\ task' = [task EXCEPT ![t] = [@ EXCEPT !.pc = "insert", !.born = 0]]
            /\ UNCHANGED lastDrop
       ELSE /\ task' = [task EXCEPT ![t] = IdleTask]
            /\ lastDrop' = "integrity"
            /\ UNCHANGED groups
    /\ UNCHANGED <<messages, logs, run, outbox, now, env, emb, inbox, nDeliv, nRuns>>

\* mutant of MessageInsertAllowed: the column is not unique
MessageInsertUnconstrained(id) == TRUE

\* the unique constraint of Message.message_id (models.py line 71)
MessageInsertAllowed(id) == ~MessageExists(id)

\* mutant of Enqueued: the message type is not looked at
EnqueuedAnyType(wa, id) ==
    [emb EXCEPT !.queue = Append(@, id), !.put = Append(@, id)]

\* _save_message, lines 177-179: the new row's primary key is put on the
\* embedding queue when the message is of type text; the queue has no bound,
\* so put returns at once
Enqueued(wa, id) ==
    IF wa.message_type = "text"
    THEN [emb EXCEPT !.queue = Append(@, id), !.put = Append(@, id)]
    ELSE emb

\* _save_message, lines 159-179: the insert, its commit, the refresh and the
\* enqueue; a violated constraint raises, and process_message logs and drops
InsertMessage(t) ==
    /\ task[t].pc = "insert"
    /\ IF MessageInsertAllowed(task[t].msg.message_id)
       THEN /\ messages' = Append(messages, MessageRow(task[t].msg))
            /\ emb' = Enqueued(task[t].msg, Len(messages) + 1)
            /\ UNCHANGED lastDrop
       ELSE /\ lastDrop' = "integrity"
            /\ UNCHANGED <<messages, emb>>
    /\ task' = [task EXCEPT ![t] = IdleTask]
    /\ UNCHANGED <<groups, logs, run, outbox, now, env, inbox, nDeliv, nRuns>>

(***************************************************************************)
(* The embedding consumer (MessageHandler._process_embeddings).            *)
(***************************************************************************)
\* line 204: the consumer takes the oldest item
EmbedTake ==
    /\ emb.cur = 0
    /\ emb.queue # <<>>
    /\ emb' = [emb EXCEPT !.cur = Head(emb.queue), !.queue = Tail(emb.queue)]
    /\ UNCHANGED <<groups, messages, logs, task, run, outbox, now, env, inbox, nDeliv,
                   nRuns, lastDrop>>

\* lines 207-227: the embedding is computed and written to the row, or the
\* computation or the write fails, which is logged; the consumer goes on
EmbedDone ==
    /\ emb.cur # 0
    /\ \/ emb' = [emb EXCEPT !.cur = 0, !.embedded = @ \cup {emb.cur}]
       \/ emb' = [emb EXCEPT !.cur = 0]
    /\ UNCHANGED <<groups, messages, logs, task, run, outbox, now, env, inbox, nDeliv,
                   nRuns, lastDrop>>


(***************************************************************************)
(* The message queries of models.Group.                                    *)
(***************************************************************************)
\* datetime.now().replace(hour=0, minute=0, second=0, microsecond=0)
TodayStart(t) == (t \div DayLen) * DayLen

\* mutant of MatchingRows: the cutoff itself is left out
MatchingRowsAfter(jid, cutoff) ==
    {i \in 1..Len(messages) :
        /\ messages[i].group_jid = jid
        /\ messages[i].timestamp > cutoff}

\* the rows the WHERE clauses of lines 33-34 and 53-54 keep
MatchingRows(jid, cutoff) ==
    {i \in 1..Len(messages) :
        /\ messages[i].group_jid = jid
        /\ messages[i].timestamp >= cutoff}

\* the orders ORDER BY timestamp ASC may return rows in
OrderedBy(rows) ==
    {ord \in [1..Cardinality(rows) -> rows] :
        /\ \A a, b \in 1..Cardinality(rows) : a # b => ord[a] # ord[b]
        /\ \A a, b \in 1..Cardinality(rows) :
              a < b => messages[ord[a]].timestamp <= messages[ord[b]].timestamp}

\* the lists get_messages_since_last_summary and get_messages_today may return
QueryMessages(jid, cutoff) ==
    {[a \in 1..Len(ord) |-> messages[ord[a]]] : ord \in OrderedBy(MatchingRows(jid, cutoff))}

\* Group.get_messages_since_last_summary, for a loaded Group object
get_messages_since_last_summary(group) ==
    QueryMessages(group.group_jid, group.last_summary_sync)

\* Group.get_messages_today
get_messages_today(group) ==
    QueryMessages(group.group_jid, TodayStart(now))

(***************************************************************************)
(* The summarization engine and the delivery coordinator (summarizer.py).  *)
(***************************************************************************)
\* the Group objects the session loads at line 176
ManagedGroups ==
    LET ids == {i \in 1..Len(groups) : groups[i].managed}
        Nth[n \in 1..Cardinality(ids)] ==
            IF n = 1 THEN Min(ids) ELSE Min({i \in ids : i > Nth[n - 1]})
    IN  [n \in 1..Cardinality(ids) |->
            [id |-> Nth[n], group_jid |-> groups[Nth[n]].group_jid,
             last_summary_sync |-> groups[Nth[n]].last_summary_sync]]

\* the call returns and its session is closed
Returned(r, result) ==
    [run[r] EXCEPT !.pc = "done", !.result = result, !.msgs = <<>>, !.attempt = 0,
                   !.idx = 0, !.k = 0, !.pend = {}, !.psync = FALSE]

\* the scheduler's trigger (scheduler.py lines 49-53): a non-forced run
SchedFire ==
    /\ run[0].pc = "idle"
    /\ MayStartRun
    /\ run' = [run EXCEPT ![0] = StartedRun(FALSE)]
    /\ nRuns' = nRuns + 1
    /\ UNCHANGED <<groups, messages, logs, task, outbox, now, env, emb, inbox, nDeliv, lastDrop>>

\* lines 173-185
Enumerate(r) ==
    /\ run[r].pc = "enum"
    /\ run' = [run EXCEPT ![r] =
                 IF ManagedGroups = <<>>
                 THEN Returned(r, "false")
                 ELSE [@ EXCEPT !.pc = "select", !.groups = ManagedGroups, !.idx = 1]]
    /\ UNCHANGED <<groups, messages, logs, task, outbox, now, env, emb, inbox, nDeliv, nRuns,
                   lastDrop>>

\* mutant of AfterGroup: the run goes on to the send with an empty list
AfterGroupAlwaysSends(r, st) ==
    IF st.idx < Len(st.groups)
    THEN [st EXCEPT !.pc = "select", !.idx = st.idx + 1, !.msgs = <<>>, !.attempt = 0]
    ELSE [st EXCEPT !.pc = "send", !.msgs = <<>>, !.attempt = 0, !.idx = 0]

\* the loop of line 191 goes on with the next group, or lines 224-234
AfterGroup(r, st) ==
    IF st.idx < Len(st.groups)
    THEN [st EXCEPT !.pc = "select", !.idx = st.idx + 1, !.msgs = <<>>, !.attempt = 0]
    ELSE IF st.data = <<>>
    THEN [st EXCEPT !.pc = "done", !.result = "false", !.msgs = <<>>, !.attempt = 0,
                    !.idx = 0]
    ELSE [st EXCEPT !.pc = "send", !.msgs = <<>>, !.attempt = 0, !.idx = 0]

\* mutant of WindowOf: every run asks for the messages since the last summary
WindowOfAlwaysSince(force, group) == get_messages_since_last_summary(group)

\* summarize_group, lines 82-89: the window query
WindowOf(force, group) ==
    IF force THEN get_messages_today(group) ELSE get_messages_since_last_summary(group)

\* mutant of Skips: a forced run goes on with an empty window
SkipsUnforcedOnly(force, msgs) == ~force /\ Len(msgs) = 0

\* summarize_group, lines 92-97: whether the group is skipped
Skips(force, msgs) == Len(msgs) = 0

\* mutant of Truncated: the first messages of the window are kept
TruncatedOldest(msgs) ==
    IF Len(msgs) > MaxMessagesPerSummary
    THEN SubSeq(msgs, 1, MaxMessagesPerSummary)
    ELSE msgs

\* summarize_group, lines 102-107
Truncated(msgs) ==
    IF Len(msgs) > MaxMessagesPerSummary
    THEN SubSeq(msgs, Len(msgs) - MaxMessagesPerSummary + 1, Len(msgs))
    ELSE msgs

IdsOf(msgs) == {msgs[i].message_id : i \in 1..Len(msgs)}

\* utils.format_messages_for_summary: one line per message, in the order of
\* the list; the message id stands for the sender and the content of the line
format_messages_for_summary(msgs) ==
    [i \in 1..Len(msgs) |->
        [timestamp |-> msgs[i].timestamp, message |-> msgs[i].message_id]]

\* summarize_group, lines 82-116
SelectWindow(r) ==
    /\ run[r].pc = "select"
    /\ \E msgs \in WindowOf(run[r].force, run[r].groups[run[r].idx]) :
          LET st == [run[r] EXCEPT !.sel = Append(@, IdsOf(msgs))]
          IN  run' = [run EXCEPT ![r] =
                        IF Skips(run[r].force, msgs)
                        THEN AfterGroup(r, [st EXCEPT !.out = Append(@, "skipped")])
                        ELSE [st EXCEPT !.pc = "generate", !.msgs = Truncated(msgs)]]
    /\ UNCHANGED <<groups, messages, logs, task, outbox, now, env, emb, inbox, nDeliv, nRuns,
                   lastDrop>>


Max(S) == CHOOSE x \in S : \A y \in S : x >= y

CurrentGroup(r) == run[r].groups[run[r].idx]

\* what the language model may answer: response.text.strip()
Digests == {"digest", ""}

\* summarize_group, lines 122-131: the row of a generated summary
SuccessLog(group, msgs, summary) ==
    SummaryLogRow(group.group_jid, summary, Len(msgs), msgs[1].timestamp,
                  msgs[Len(msgs)].timestamp, "none")

\* summarize_group, lines 143-153: the row of a failed generation
FailureLog(group, msgs) ==
    SummaryLogRow(group.group_jid, "", Len(msgs), msgs[1].timestamp,
                  msgs[Len(msgs)].timestamp, "error")

\* generate_summary answers: lines 119-138
GenerateOk(r) ==
    /\ run[r].pc = "generate"
    /\ \E summary \in Digests :
          logs' = Append(logs, SuccessLog(CurrentGroup(r), run[r].msgs, summary))
    /\ run' = [run EXCEPT ![r] = [@ EXCEPT !.pc = "fetch", !.msgs = <<>>, !.attempt = 0,
                                            !.wrote = @ \cup {Len(logs) + 1}]]
    /\ UNCHANGED <<groups, messages, task, outbox, now, env, emb, inbox, nDeliv, nRuns, lastDrop>>

\* mutant of OnGenerateFailure: the failure is only logged, no row is written
OnGenerateFailureSilent(r) ==
    /\ UNCHANGED logs
    /\ run' = [run EXCEPT ![r] = AfterGroup(r, [@ EXCEPT !.out = Append(@, "failed")])]

\* mutant of OnGenerateFailure: the failure ends the whole batch run
OnGenerateFailureAborting(r) ==
    /\ logs' = Append(logs, FailureLog(CurrentGroup(r), run[r].msgs))
    /\ run' = [run EXCEPT ![r] = [Returned(r, "false") EXCEPT !.out = Append(@, "failed")]]

\* what summarize_group does when generate_summary raised for the last time
OnGenerateFailure(r) ==
    /\ logs' = Append(logs, FailureLog(CurrentGroup(r), run[r].msgs))
    /\ run' = [run EXCEPT ![r] = AfterGroup(r, [@ EXCEPT !.out = Append(@, "failed")])]

\* mutant of GenerateFail: one attempt more than stop_after_attempt allows
GenerateFailOnceMore(r) ==
    /\ run[r].pc = "generate"
    /\ IF run[r].attempt < GenerateAttempts
       THEN /\ run' = [run EXCEPT ![r] = [@ EXCEPT !.attempt = @ + 1]]
            /\ UNCHANGED logs
       ELSE OnGenerateFailure(r)
    /\ UNCHANGED <<groups, messages, task, outbox, now, env, emb, inbox, nDeliv, nRuns, lastDrop>>

\* one attempt of generate_summary raises: tenacity retries it (lines 35-40)
\* or, after the last attempt, re-raises into lines 140-154
GenerateFail(r) ==
    /\ run[r].pc = "generate"
    /\ IF run[r].attempt + 1 < GenerateAttempts
       THEN /\ run' = [run EXCEPT ![r] = [@ EXCEPT !.attempt = @ + 1]]
            /\ UNCHANGED logs
       ELSE OnGenerateFailure(r)
    /\ UNCHANGED <<groups, messages, task, outbox, now, env, emb, inbox, nDeliv, nRuns, lastDrop>>

\* lines 198-204: the group's latest SummaryLog, 0 when there is none
LatestLog(jid) ==
    LET rows == {i \in 1..Len(logs) : logs[i].group_jid = jid}
    IN  IF rows = {} THEN 0 ELSE Max(rows)

\* lines 195-217
FetchLatest(r) ==
    /\ run[r].pc = "fetch"
    /\ LET g == CurrentGroup(r)
           id == LatestLog(g.group_jid)
       IN  run' = [run EXCEPT ![r] =
                     IF id # 0 /\ logs[id].summary_text # ""
                     THEN AfterGroup(r, [@ EXCEPT
                              !.data = Append(@, [group_jid |-> g.group_jid,
                                                  summary_log_id |-> id,
                                                  message_count |-> logs[id].message_count]),
                              !.out = Append(@, "ok")])
                     ELSE AfterGroup(r, [@ EXCEPT !.out = Append(@, "empty")])]
    /\ UNCHANGED <<groups, messages, logs, task, outbox, now, env, emb, inbox, nDeliv, nRuns,
                   lastDrop>>

\* the rows of summary_logs after the session's changes are written
LogsMarked(ids) ==
    [i \in 1..Len(logs) |->
        IF i \in ids THEN [logs[i] EXCEPT !.sent_successfully = TRUE] ELSE logs[i]]

\* mutant of GroupsSynced: the update reaches every row of the table
GroupsSyncedEveryRow(loaded, at) ==
    [i \in 1..Len(groups) |-> [groups[i] EXCEPT !.last_summary_sync = at]]

\* the rows of groups after the session's changes are written
GroupsSynced(loaded, at) ==
    [i \in 1..Len(groups) |->
        IF \E n \in 1..Len(loaded) : loaded[n].id = i
        THEN [groups[i] EXCEPT !.last_summary_sync = at]
        ELSE groups[i]]

\* mutant of Sections: the sections are rendered last entry first
SectionsReversed(data) == [i \in 1..Len(data) |-> data[Len(data) + 1 - i].group_jid]

\* _format_consolidated_summary: one section per entry of summaries_data
Sections(data) == [i \in 1..Len(data) |-> data[i].group_jid]

\* lines 238-246: the consolidated send returned
SendOk(r) ==
    /\ run[r].pc = "send"
    /\ outbox' = Append(outbox, Sent(format_phone_number(SummaryRecipientPhone),
                                     "summary", Sections(run[r].data)))
    /\ run' = [run EXCEPT ![r] = [@ EXCEPT !.pc = "mark", !.k = 1, !.sendok = "ok"]]
    /\ UNCHANGED <<groups, messages, logs, task, now, env, emb, inbox, nDeliv, nRuns, lastDrop>>

\* mutant of OnSendFailure: the watermarks are advanced although the send raised
OnSendFailureAdvancing(r) ==
    /\ run' = [run EXCEPT ![r] = [Returned(r, "false") EXCEPT !.sendok = "raised"]]
    /\ groups' = GroupsSynced(run[r].groups, now)
    /\ UNCHANGED logs

\* mutant of OnSendFailure: the summaries are marked sent although the send raised
OnSendFailureMarking(r) ==
    /\ run' = [run EXCEPT ![r] = [Returned(r, "false") EXCEPT !.sendok = "raised"]]
    /\ logs' = LogsMarked({run[r].data[k].summary_log_id : k \in 1..Len(run[r].data)})
    /\ UNCHANGED groups

\* what lines 269-271 leave when send_message raised
OnSendFailure(r) ==
    /\ run' = [run EXCEPT ![r] = [Returned(r, "false") EXCEPT !.sendok = "raised"]]
    /\ UNCHANGED <<groups, logs>>

\* lines 238-244 and 269-271: the consolidated send raised
SendFail(r) ==
    /\ run[r].pc = "send"
    /\ OnSendFailure(r)
    /\ UNCHANGED <<messages, task, outbox, now, env, emb, inbox, nDeliv, nRuns, lastDrop>>

\* lines 250-263: one SummaryLog is looked up and marked in the session;
\* after the last one the loaded groups get their new watermark
MarkSent(r) ==
    /\ run[r].pc = "mark"
    /\ LET id == run[r].data[run[r].k].summary_log_id
           st == [run[r] EXCEPT !.pend = @ \cup {id}]
       IN  run' = [run EXCEPT ![r] =
                     IF run[r].k < Len(run[r].data)
                     THEN [st EXCEPT !.k = @ + 1]
                     ELSE [st EXCEPT !.pc = "commit", !.k = 0, !.psync = TRUE,
                                     !.syncAt = now]]
    /\ UNCHANGED <<groups, messages, logs, task, outbox, now, env, emb, inbox, nDeliv, nRuns,
                   lastDrop>>

\* line 265: the one commit of the marks and of the watermarks
CommitDelivery(r) ==
    /\ run[r].pc = "commit"
    /\ logs' = LogsMarked(run[r].pend)
    /\ groups' = GroupsSynced(run[r].groups, run[r].syncAt)
    /\ run' = [run EXCEPT ![r] = Returned(r, "true")]
    /\ UNCHANGED <<messages, task, outbox, now, env, emb, inbox, nDeliv, nRuns, lastDrop>>

\* _run_daily_summary, lines 53-56: the scheduled run is over
SchedReturn ==
    /\ run[0].pc = "done"
    /\ run' = [run EXCEPT ![0] = IdleRun]
    /\ UNCHANGED <<groups, messages, logs, task, outbox, now, env, emb, inbox, nDeliv, nRuns,
                   lastDrop>>

\* _handle_sikum_command, lines 91-112, once the forced run is over
CommandReturn(t) ==
    /\ task[t].pc = "cmdrun"
    /\ run[t].pc = "done"
    /\ IF run[t].result = "true"
       THEN outbox' = outbox /\ Handled
       ELSE IF run[t].result = "false"
       THEN \/ outbox' = Append(outbox, Sent(task[t].msg.sender_jid, "nomsg", <<>>)) /\ Handled
            \/ ErrorNotified(task[t].msg.sender_jid)
       ELSE ErrorNotified(task[t].msg.sender_jid)
    /\ run' = [run EXCEPT ![t] = IdleRun]
    /\ task' = [task EXCEPT ![t] = IdleTask]
    /\ UNCHANGED <<groups, messages, logs, now, env, emb, inbox, nDeliv, nRuns>>

(***************************************************************************)
(* Specifications.  The store does not fail in any of them but the last.   *)
(***************************************************************************)
IngestSteps ==
    \/ \E t \in Tasks : \E data \in Notifications : Deliver(t, data)
    \/ \E t \in Tasks : SaveCheck(t)
    \/ \E t \in Tasks : EnsureGroup(t)
    \/ \E t \in Tasks : CreateGroup(t)
    \/ \E t \in Tasks : InsertMessage(t)

RunSteps ==
    \/ SchedFire
    \/ \E r \in Runners : Enumerate(r)
    \/ \E r \in Runners : SelectWindow(r)
    \/ \E r \in Runners : GenerateOk(r)
    \/ \E r \in Runners : GenerateFail(r)
    \/ \E r \in Runners : FetchLatest(r)
    \/ \E r \in Runners : SendOk(r)
    \/ \E r \in Runners : SendFail(r)
    \/ \E r \in Runners : MarkSent(r)
    \/ \E r \in Runners : CommitDelivery(r)
    \/ SchedReturn
    \/ \E t \in Tasks : CommandReturn(t)

\* group messages, the scheduled run and the on-demand run
Init ==
    /\ InitCommon
    /\ groups \in {<<>>, StoredGroups}
    /\ messages = <<>>
    /\ env = [kinds |-> {"group", "sikum"}, conc |-> 1, overlap |-> FALSE]

Next == Tick \/ IngestSteps \/ RunSteps

Spec == Init /\ [][Next]_vars

\* concurrent deliveries of group messages
InitIngest ==
    /\ InitCommon
    /\ groups \in {<<>>, StoredGroups}
    /\ messages = <<>>
    /\ env = [kinds |-> {"group", "broken"}, conc |-> MaxTasks, overlap |-> FALSE]

NextIngest == Tick \/ IngestSteps

SpecIngest == InitIngest /\ [][NextIngest]_vars

\* direct messages and the command router
\* the store holds one message of the managed group
InitCommand ==
    /\ InitCommon
    /\ groups = StoredGroups
    /\ messages = << StoredMessage("m1", normalize_jid(ChatG2), 0) >>
    /\ env = [kinds |-> {"direct"}, conc |-> 1, overlap |-> FALSE]

NextCommand ==
    \/ Tick
    \/ \E t \in Tasks : \E data \in Notifications : Deliver(t, data)
    \/ \E t \in Tasks : StatsReply(t)
    \/ RunSteps

SpecCommand == InitCommand /\ [][NextCommand]_vars

\* a fourth chat, of a managed group that is quiet
ChatG4 == <<"1", "-", "4", "@", "g.us">>

\* a store with three managed groups and an unmanaged one between them
BatchGroups ==
    << GroupRow(normalize_jid(ChatG1), TRUE, 0), GroupRow(normalize_jid(ChatG3), FALSE, 0),
       GroupRow(normalize_jid(ChatG2), TRUE, 0), GroupRow(normalize_jid(ChatG4), TRUE, 0) >>

\* three messages of the first group, more than max_messages_per_summary,
\* stored in an order that is not their order in time, and one of the third
BatchMessages(ts) ==
    << StoredMessage("a1", normalize_jid(ChatG1), ts[1]),
       StoredMessage("b1", normalize_jid(ChatG2), 0),
       StoredMessage("a2", normalize_jid(ChatG1), ts[2]),
       StoredMessage("a3", normalize_jid(ChatG1), ts[3]) >>

\* batch runs, scheduled and on demand, over a store filled earlier
InitBatch ==
    /\ logs = <<>>
    /\ task = [t \in Tasks |-> IdleTask]
    /\ run = [r \in Runners |-> IdleRun]
    /\ outbox = <<>>
    /\ now = 1
    /\ nDeliv = 0
    /\ nRuns = 0
    /\ lastDrop = "none"
    /\ emb = IdleEmb
    /\ inbox = IdleInbox
    /\ groups = BatchGroups
    /\ messages \in {BatchMessages(ts) : ts \in {<<1, 0, 0>>, <<0, 1, 1>>, <<1, 0, 1>>}}
    /\ env = [kinds |-> {"sikum"}, conc |-> 1, overlap |-> FALSE]

NextBatch ==
    \/ Tick
    \/ \E t \in Tasks : \E data \in Notifications : Deliver(t, data)
    \/ RunSteps

SpecBatch == InitBatch /\ [][NextBatch]_vars

\* deliveries of messages whose identifiers need normalizing
InitJid ==
    /\ InitCommon
    /\ groups = <<>>
    /\ messages = <<>>
    /\ env = [kinds |-> {"jid"}, conc |-> 1, overlap |-> FALSE]

SpecJid == InitJid /\ [][NextIngest]_vars

\* the scheduled trigger and on-demand commands with nothing to keep a run
\* from starting while another one is between two of its suspension points
InitOverlap ==
    /\ InitCommon
    /\ groups = StoredGroups
    /\ messages = << StoredMessage("m1", normalize_jid(ChatG2), 0) >>
    /\ env = [kinds |-> {"sikum"}, conc |-> MaxTasks, overlap |-> TRUE]

SpecOverlap == InitOverlap /\ [][NextBatch]_vars

\* the query of line 175 raises: nothing has been read or written, get_session
\* rolls back and the exception leaves generate_and_send_daily_summaries
EnumerateFault(r) ==
    /\ run[r].pc = "enum"
    /\ run' = [run EXCEPT ![r] = Returned(r, "raised")]
    /\ UNCHANGED <<groups, messages, logs, task, outbox, now, env, emb, inbox, nDeliv, nRuns,
                   lastDrop>>

NextCommandFault ==
    \/ NextCommand
    \/ \E r \in Runners : EnumerateFault(r)

\* direct messages while the store may fail at the start of a batch run
SpecCommandFault == InitCommand /\ [][NextCommandFault]_vars

\* direct messages of many texts, on a store without groups
InitKeyword ==
    /\ InitCommon
    /\ groups = <<>>
    /\ messages = <<>>
    /\ env = [kinds |-> {"keyword"}, conc |-> 1, overlap |-> FALSE]

\* without a managed group a batch run ends at its enumeration
NextKeyword ==
    \/ Tick
    \/ \E t \in Tasks : \E data \in Notifications : Deliver(t, data)
    \/ \E t \in Tasks : StatsReply(t)
    \/ \E r \in Runners : Enumerate(r)
    \/ \E t \in Tasks : CommandReturn(t)

SpecKeyword == InitKeyword /\ [][NextKeyword]_vars

\* ---------------------------------------------------------------------
\* Ingestion together with the embedding consumer

InitEmbed ==
    /\ InitCommon
    /\ groups = <<>>
    /\ messages = <<>>
    /\ env = [kinds |-> {"media"}, conc |-> MaxTasks, overlap |-> FALSE]

NextEmbed == NextIngest \/ EmbedTake \/ EmbedDone

SpecEmbed == InitEmbed /\ [][NextEmbed]_vars

\* the consumer is a task of the loop that is never starved: whenever it can
\* take an item or finish one, it eventually does
SpecEmbedFair == SpecEmbed /\ WF_vars(EmbedTake) /\ WF_vars(EmbedDone)

\* ---------------------------------------------------------------------
\* Persistence errors while a message is saved

\* process_message, lines 81-82: the exception is logged and the coroutine
\* ends
SaveErrorLogged(t) ==
    /\ task' = [task EXCEPT ![t] = IdleTask]
    /\ lastDrop' = "saveerror"
    /\ UNCHANGED <<groups, logs, run, outbox, now, env, inbox, nDeliv, nRuns>>

\* a query or a commit of _save_message raises (lines 146, 185, 195, 170):
\* get_session rolls back what was not committed
SaveFault(t) ==
    /\ task[t].pc \in {"check", "ensure", "mkgroup", "insert"}
    /\ SaveErrorLogged(t)
    /\ UNCHANGED <<messages, emb>>

\* the commit of line 170 has stored the row and the refresh of line 171
\* raises: the put of lines 178-179 is not reached
RefreshFault(t) ==
    /\ task[t].pc = "insert"
    /\ MessageInsertAllowed(task[t].msg.message_id)
    /\ messages' = Append(messages, MessageRow(task[t].msg))
    /\ SaveErrorLogged(t)
    /\ UNCHANGED emb

\* a persistence error is raised while process_message saves the message
SaveError(t) == SaveFault(t) \/ RefreshFault(t)

NextSaveFault ==
    \/ NextIngest
    \/ \E t \in Tasks : SaveFault(t)
    \/ \E t \in Tasks : RefreshFault(t)

SpecSaveFault == InitEmbed /\ [][NextSaveFault]_vars

\* ---------------------------------------------------------------------
\* Direct and group messages together with the commands' runs

InitDirect ==
    /\ InitCommon
    /\ groups = StoredGroups
    /\ messages = << StoredMessage("m1", normalize_jid(ChatG2), 0) >>
    /\ env = [kinds |-> {"direct", "group"}, conc |-> 1, overlap |-> FALSE]

NextDirect ==
    \/ Tick
    \/ IngestSteps
    \/ \E t \in Tasks : StatsReply(t)
    \/ RunSteps

SpecDirect == InitDirect /\ [][NextDirect]_vars

\* command keywords arrive in the groups as well as directly
InitGroupCommand ==
    /\ InitCommon
    /\ groups = StoredGroups
    /\ messages = << StoredMessage("m1", normalize_jid(ChatG2), 0) >>
    /\ env = [kinds |-> {"direct", "groupcmd"}, conc |-> 1, overlap |-> FALSE]

SpecGroupCommand == InitGroupCommand /\ [][NextDirect]_vars

\* ---------------------------------------------------------------------
\* The notification callback of the provider's receiver thread

\* the bodies the receiver hands to the callback
CallbackBodies ==
    {Body(id, chat, sender, now, Dict("textMessage", text), EmptyDict, EmptyDict,
          EmptyDict, EmptyDict) :
        id \in {"m1", "m2", ""},
        chat \in {ChatG1, ChatD7},
        sender \in {OtherSender, AuthorizedSender},
        text \in {<<"hi">>, <<"stats">>}}

\* mutant of Callback: process_message is run by the callback itself
CallbackInline(body) ==
    /\ nDeliv < MaxDeliveries
    /\ nDeliv' = nDeliv + 1
    /\ UNCHANGED inbox
    /\ \E t \in Tasks : Process(t, handle_incoming_message(body))

\* _handle_incoming_message, lines 133-172: a body without an id is skipped;
\* with a loop the coroutine is submitted to it and the callback returns;
\* without one (get_running_loop raises off the loop) nothing is scheduled
Callback(body) ==
    /\ nDeliv < MaxDeliveries
    /\ nDeliv' = nDeliv + 1
    /\ LET formatted_data == handle_incoming_message(body)
       IN  IF formatted_data.id = ""
           THEN inbox' = inbox /\ lastDrop' = "noid"
           ELSE IF inbox.loop
           THEN /\ inbox' = [inbox EXCEPT !.pending = Append(@, formatted_data)]
                /\ UNCHANGED lastDrop
           ELSE inbox' = inbox /\ lastDrop' = "noloop"
    /\ UNCHANGED <<groups, messages, logs, task, run, outbox, now, env, emb, nRuns>>

\* the loop runs the oldest submitted coroutine up to its first suspension
Dispatch(t) ==
    /\ inbox.pending # <<>>
    /\ inbox' = [inbox EXCEPT !.pending = Tail(@)]
    /\ UNCHANGED nDeliv
    /\ Process(t, Head(inbox.pending))

\* start_receiving, lines 29-33: the loop is captured, or the reference
\* stays None
InitCallback ==
    /\ logs = <<>>
    /\ task = [t \in Tasks |-> IdleTask]
    /\ run = [r \in Runners |-> IdleRun]
    /\ outbox = <<>>
    /\ now = 0
    /\ nDeliv = 0
    /\ nRuns = 0
    /\ lastDrop = "none"
    /\ emb = IdleEmb
    /\ inbox \in {[loop |-> l, pending |-> <<>>] : l \in BOOLEAN}
    /\ groups = <<>>
    /\ messages = <<>>
    /\ env = [kinds |-> {}, conc |-> 1, overlap |-> FALSE]

NextCallback ==
    \/ Tick
    \/ \E body \in CallbackBodies : Callback(body)
    \/ \E t \in Tasks : Dispatch(t)
    \/ \E t \in Tasks : SaveCheck(t)
    \/ \E t \in Tasks : EnsureGroup(t)
    \/ \E t \in Tasks : CreateGroup(t)
    \/ \E t \in Tasks : InsertMessage(t)
    \/ \E t \in Tasks : StatsReply(t)

SpecCallback == InitCallback /\ [][NextCallback]_vars

\* notifications of every shape of body, through the adapter
InitBody ==
    /\ InitCommon
    /\ groups = <<>>
    /\ messages = <<>>
    /\ env = [kinds |-> {"body"}, conc |-> 1, overlap |-> FALSE]

SpecBody == InitBody /\ [][NextIngest]_vars

(***************************************************************************)
(* Group names: sync_existing_groups and named notifications.              *)
(***************************************************************************)
\* what WhatsAppClient.get_groups may return: entries with a jid and a name,
\* either of which may be missing
GroupData(jid, name) == [jid |-> jid, name |-> name]

ProviderGroups ==
    LET entries == { GroupData(ChatG1, "one"), GroupData(ChatG2, "two"),
                     GroupData(ChatG2, EmptyName), GroupData(NoJid, "three") }
    IN  {<<a>> : a \in entries} \cup {<<a, b>> : a, b \in entries}

PositionOf(gs, jid) == CHOOSE i \in 1..Len(gs) : gs[i].group_jid = jid

\* sync_existing_groups, lines 246-271: one entry of the list, on the rows the
\* session holds
SyncedGroup(gs, group_data, created) ==
    LET group_jid == normalize_jid(group_data.jid)
    IN  IF group_data.jid = NoJid THEN gs
        ELSE IF ~\E i \in 1..Len(gs) : gs[i].group_jid = group_jid
        THEN Append(gs, NamedGroupRow(group_jid, group_data.name, TRUE, created))
        ELSE [gs EXCEPT ![PositionOf(gs, group_jid)].group_name = group_data.name]

RECURSIVE SyncedGroups(_, _, _)
SyncedGroups(gs, list, created) ==
    IF list = <<>> THEN gs
    ELSE SyncedGroups(SyncedGroup(gs, Head(list), created), Tail(list), created)

\* sync_existing_groups: the list is applied and committed at line 273, or a
\* statement fails, which rolls everything back and is logged (lines 277-278)
SyncExistingGroups ==
    /\ \E list \in ProviderGroups :
          \/ groups' = SyncedGroups(groups, list, now)
          \/ groups' = groups
    /\ UNCHANGED <<messages, logs, task, run, outbox, now, env, emb, inbox, nDeliv,
                   nRuns, lastDrop>>

\* a store that holds one group under a name, or under no name
InitNames ==
    /\ InitCommon
    /\ groups \in { <<NamedGroupRow(normalize_jid(ChatG2), "old", TRUE, 0)>>,
                     <<GroupRow(normalize_jid(ChatG2), TRUE, 0)>> }
    /\ messages = <<>>
    /\ env = [kinds |-> {"named"}, conc |-> 1, overlap |-> FALSE]

\* named notifications alone
SpecNamed == InitNames /\ [][NextIngest]_vars

NextNames == NextIngest \/ SyncExistingGroups

SpecNames == InitNames /\ [][NextNames]_vars

\* group messages of the bot and of others, summarized on schedule and on
\* demand
InitBot ==
    /\ InitCommon
    /\ groups = <<>>
    /\ messages = <<>>
    /\ env = [kinds |-> {"bot", "sikum"}, conc |-> 1, overlap |-> FALSE]

SpecBot == InitBot /\ [][Next]_vars

\* group messages whose timestamps are not bounded by the local clock
InitWindow ==
    /\ InitCommon
    /\ groups = StoredGroups
    /\ messages = << StoredMessage("m1", normalize_jid(ChatG2), 0) >>
    /\ env = [kinds |-> {"ahead", "sikum"}, conc |-> 1, overlap |-> FALSE]

SpecWindow == InitWindow /\ [][Next]_vars

(***************************************************************************)
(* The store may fail inside summarize_group.                              *)
(***************************************************************************)
\* the window query of lines 82-89 raises: lines 156-158 return False
SelectFault(r) ==
    /\ run[r].pc = "select"
    /\ run' = [run EXCEPT ![r] =
                 AfterGroup(r, [@ EXCEPT !.sel = Append(@, {}), !.out = Append(@, "error")])]
    /\ UNCHANGED <<groups, messages, logs, task, outbox, now, env, emb, inbox, nDeliv, nRuns,
                   lastDrop>>

\* the commit of line 131 raises: lines 140-154 write the failed row in its
\* place; or that commit (line 153) raises too and lines 156-158 return False
PersistFault(r) ==
    /\ run[r].pc = "generate"
    /\ \/ OnGenerateFailure(r)
       \/ /\ UNCHANGED logs
          /\ run' = [run EXCEPT ![r] = AfterGroup(r, [@ EXCEPT !.out = Append(@, "error")])]
    /\ UNCHANGED <<groups, messages, task, outbox, now, env, emb, inbox, nDeliv, nRuns, lastDrop>>

NextGroupFault ==
    \/ NextBatch
    \/ \E r \in Runners : SelectFault(r)
    \/ \E r \in Runners : PersistFault(r)

InitGroupFault ==
    /\ InitBatch
    /\ messages = BatchMessages(<<1, 0, 1>>)

SpecGroupFault == InitGroupFault /\ [][NextGroupFault]_vars

(***************************************************************************)
(* The store may fail after the consolidated send.                         *)
(***************************************************************************)
\* mutant of ExitAfterError: the exit commit writes what the session held
ExitAfterErrorFlushing(r) ==
    /\ logs' = LogsMarked(run[r].pend)
    /\ groups' = IF run[r].psync THEN GroupsSynced(run[r].groups, run[r].syncAt) ELSE groups

\* get_session, lines 80-88, when the block was left after a statement of the
\* session failed: the transaction is aborted, its pending changes are lost
ExitAfterError(r) == UNCHANGED <<groups, logs>>

\* a lookup of lines 251-253 raises: lines 269-271 return False, and the
\* session's exit either ends quietly or raises in turn
MarkFault(r) ==
    /\ run[r].pc = "mark"
    /\ ExitAfterError(r)
    /\ \E res \in {"false", "raised"} :
          run' = [run EXCEPT ![r] = Returned(r, res)]
    /\ UNCHANGED <<messages, task, outbox, now, env, emb, inbox, nDeliv, nRuns, lastDrop>>

\* the commit of line 265 raises
CommitFault(r) ==
    /\ run[r].pc = "commit"
    /\ ExitAfterError(r)
    /\ run' = [run EXCEPT ![r] = Returned(r, "false")]
    /\ UNCHANGED <<messages, task, outbox, now, env, emb, inbox, nDeliv, nRuns, lastDrop>>

NextDbFault ==
    \/ Next
    \/ \E r \in Runners : MarkFault(r)
    \/ \E r \in Runners : CommitFault(r)

SpecDbFault == Init /\ [][NextDbFault]_vars

(***************************************************************************)
(* Properties.                                                             *)
(***************************************************************************)
LoadedIds(r) == {run[r].groups[n].id : n \in 1..Len(run[r].groups)}

\* C1: when a batch run has returned, each group it enumerated has its
\* last_summary_sync set by the run (to the time read at line 262) if the
\* consolidated send returned, and has the value the run loaded otherwise
C1_WatermarkChangedIffSent ==
    \A r \in Runners :
        run[r].pc = "done" =>
            \A n \in 1..Len(run[r].groups) :
                LET g == run[r].groups[n]
                IN  /\ groups[g.id].group_jid = g.group_jid
                    /\ IF run[r].sendok = "ok"
                       THEN groups[g.id].last_summary_sync = run[r].syncAt
                       ELSE groups[g.id].last_summary_sync = g.last_summary_sync

\* a run whose send returned has changed the watermark of a group
C1_Witness ==
    \E r \in Runners :
        /\ run[r].pc = "done"
        /\ run[r].sendok = "ok"
        /\ \E n \in 1..Len(run[r].groups) :
              groups[run[r].groups[n].id].last_summary_sync
                  # run[r].groups[n].last_summary_sync

\* C2: the message table holds at most one row per external message_id
C2_OneRowPerMessageId ==
    \A i, j \in 1..Len(messages) :
        messages[i].message_id = messages[j].message_id => i = j

\* a delivery that passed the existence check is about to insert an id that
\* another delivery has stored meanwhile
C2_Witness ==
    \E t \in Tasks :
        /\ task[t].pc = "insert"
        /\ \E i \in 1..Len(messages) : messages[i].message_id = task[t].msg.message_id

\* the stored messages of a group from a time on
StoredSince(jid, t) ==
    {i \in 1..Len(messages) : messages[i].group_jid = jid /\ messages[i].timestamp >= t}

\* C3: a non-forced run generates a summary for a group only when its window
\* holds at least minimum_messages_for_summary messages; with fewer the group
\* is skipped, the language model is not called and no row is written
C3_BelowMinimumSkipped ==
    \A r \in Runners :
        ~run[r].force =>
            /\ run[r].pc \in {"generate", "fetch"} =>
                  Cardinality(run[r].sel[run[r].idx]) >= MinimumMessagesForSummary
            /\ \A n \in 1..Len(run[r].out) :
                  Cardinality(run[r].sel[n]) < MinimumMessagesForSummary =>
                      run[r].out[n] = "skipped"

\* C4: a forced run that reaches a group with no stored message of today
\* skips it: the step writes no SummaryLog, does not go on to the language
\* model, contributes no digest and reports the group as skipped
C4_ForcedEmptySkipped ==
    [][\A r \in Runners :
         ( /\ run[r].force
           /\ run[r].pc = "select"
           /\ run'[r] # run[r]
           /\ StoredSince(run[r].groups[run[r].idx].group_jid, TodayStart(now)) = {} )
         => /\ logs' = logs
            /\ run'[r].pc \notin {"generate", "fetch"}
            /\ run'[r].data = run[r].data
            /\ run'[r].out = Append(run[r].out, "skipped")]_vars

\* a forced run has skipped a group for which nothing of today is stored
C4_Witness ==
    \E r \in Runners :
        /\ run[r].force
        /\ \E n \in 1..Len(run[r].out) :
              /\ run[r].out[n] = "skipped"
              /\ run[r].sel[n] = {}
              /\ StoredSince(run[r].groups[n].group_jid, TodayStart(now)) = {}

\* C5: the step in which generate_summary fails at its last attempt appends
\* exactly one SummaryLog row, of the group at hand, with empty summary_text,
\* an error_message and sent_successfully false; an earlier failed attempt
\* writes no row
C5_FailureWritesOneFailedRow ==
    [][\A r \in Runners :
         ( /\ run[r].pc = "generate"
           /\ run'[r] # run[r]
           /\ run'[r].pc # "fetch" )
         => IF run[r].attempt = GenerateAttempts - 1
            THEN /\ Len(logs') = Len(logs) + 1
                 /\ SubSeq(logs', 1, Len(logs)) = logs
                 /\ logs'[Len(logs')].group_jid = run[r].groups[run[r].idx].group_jid
                 /\ logs'[Len(logs')].summary_text = ""
                 /\ logs'[Len(logs')].error_message # "none"
                 /\ logs'[Len(logs')].sent_successfully = FALSE
            ELSE logs' = logs]_vars

\* a run has reported a group as failed and the failed row is stored
C5_Witness ==
    \E r \in Runners : \E n \in 1..Len(run[r].out) :
        /\ run[r].out[n] = "failed"
        /\ \E i \in 1..Len(logs) :
              /\ logs[i].group_jid = run[r].groups[n].group_jid
              /\ logs[i].summary_text = ""
              /\ logs[i].error_message # "none"

\* C6: the step in which the consolidated send raises changes no SummaryLog
\* and no Group row and makes the run return False; afterwards a non-forced
\* query on the stored group still returns every message the run had selected
C6_SendFailureMutatesNothing ==
    /\ [][\A r \in Runners :
            (run[r].pc = "send" /\ run'[r].sendok = "raised")
            => /\ logs' = logs
               /\ groups' = groups
               /\ run'[r].pc = "done"
               /\ run'[r].result = "false"]_vars
    /\ [](\A r \in Runners :
            (run[r].pc = "done" /\ run[r].sendok = "raised" /\ ~run[r].force)
            => \A n \in 1..Len(run[r].groups) :
                  LET row == groups[run[r].groups[n].id]
                  IN  run[r].sel[n] \subseteq
                          {messages[i].message_id :
                              i \in StoredSince(row.group_jid, row.last_summary_sync)})

\* a non-forced run whose send raised had selected messages, after time passed
C6_Witness ==
    \E r \in Runners :
        /\ run[r].pc = "done"
        /\ run[r].sendok = "raised"
        /\ ~run[r].force
        /\ now > 0
        /\ \E n \in 1..Len(run[r].sel) : run[r].sel[n] # {}

\* C7: the run enumerates exactly the managed groups; the time it reads after
\* the last mark is the current time; and its commit sets last_summary_sync
\* to that time in the rows of the enumerated groups, skipped ones included,
\* and leaves every other row as it was
C7_ConfirmedSendAdvancesEnumerated ==
    /\ [][\A r \in Runners :
            (run[r].pc = "enum" /\ run'[r].pc # "enum")
            => {run'[r].groups[n].id : n \in 1..Len(run'[r].groups)}
                   = {i \in 1..Len(groups) : groups[i].managed}]_vars
    /\ [][\A r \in Runners :
            (run[r].pc = "mark" /\ run'[r].pc = "commit") => run'[r].syncAt = now]_vars
    /\ [][\A r \in Runners :
            (run[r].pc = "commit" /\ run'[r].pc = "done" /\ run'[r].result = "true")
            => /\ Len(groups') = Len(groups)
               /\ \A i \in 1..Len(groups) :
                     IF i \in LoadedIds(r)
                     THEN groups'[i] = [groups[i] EXCEPT !.last_summary_sync = run[r].syncAt]
                     ELSE groups'[i] = groups[i]]_vars

\* a confirmed run has advanced the watermark of a group it skipped while an
\* unmanaged group kept its own
C7_Witness ==
    \E r \in Runners :
        /\ run[r].pc = "done"
        /\ run[r].result = "true"
        /\ \E n \in 1..Len(run[r].out) :
              /\ run[r].out[n] = "skipped"
              /\ groups[run[r].groups[n].id].last_summary_sync = run[r].syncAt
              /\ run[r].groups[n].last_summary_sync # run[r].syncAt
        /\ \E i \in 1..Len(groups) :
              ~groups[i].managed /\ groups[i].last_summary_sync # run[r].syncAt

ContributingLogs(r) == {run[r].data[k].summary_log_id : k \in 1..Len(run[r].data)}

AllApplied(r) ==
    /\ \A id \in ContributingLogs(r) : logs[id].sent_successfully
    /\ \A n \in 1..Len(run[r].groups) :
          groups[run[r].groups[n].id].last_summary_sync = run[r].syncAt

NoneApplied(r) ==
    /\ \A id \in ContributingLogs(r) : ~logs[id].sent_successfully
    /\ \A n \in 1..Len(run[r].groups) :
          groups[run[r].groups[n].id].last_summary_sync
              = run[r].groups[n].last_summary_sync

\* C8: once the consolidated send has returned, the store holds either all of
\* the run's marks and watermarks or none of them, also when a statement or
\* the commit after the send raises; before the commit it holds none
C8_PostSendUpdateAtomic ==
    \A r \in Runners :
        run[r].sendok = "ok" =>
            /\ AllApplied(r) \/ NoneApplied(r)
            /\ run[r].pc \in {"mark", "commit"} => NoneApplied(r)

\* a run with two contributing summaries was cut short by a persistence
\* error after its send had returned
C8_Witness ==
    \E r \in Runners :
        /\ run[r].pc = "done"
        /\ run[r].sendok = "ok"
        /\ run[r].result # "true"
        /\ Len(run[r].data) = 2

\* a sender whose normalized form is not the authorized identifier
Unauthorized(data) ==
    normalize_jid(data.senderJID) # normalize_jid(SummaryRecipientPhone)

\* the text is the on-demand summary command 'sikum'
IsSikumText(text) == Lower(Strip(text)) = <<"sikum">>

\* the acknowledgment of the on-demand summary, as sent to a requester
AckTo(data) == Sent(normalize_jid(data.senderJID), "ack", <<>>)

\* a delivery of a direct message from an unauthorized sender changes nothing
UnauthorizedIgnored ==
    \A t \in Tasks : \A data \in DirectNotifications :
        (Unauthorized(data) /\ Deliver(t, data))
        => UNCHANGED <<groups, messages, logs, task, run, outbox, nRuns>>

ExactlySince(res, jid, t) ==
    /\ \A k \in 1..Len(res) :
          /\ res[k].group_jid = jid
          /\ res[k].timestamp >= t
          /\ \E i \in 1..Len(messages) : messages[i] = res[k]
    /\ \A i \in StoredSince(jid, t) : \E k \in 1..Len(res) : res[k] = messages[i]
    /\ Len(res) = Cardinality(StoredSince(jid, t))

Ascending(res) ==
    \A a, b \in 1..Len(res) : a < b => res[a].timestamp <= res[b].timestamp

StrictlyAscending(res) ==
    \A a, b \in 1..Len(res) : a < b => res[a].timestamp < res[b].timestamp

LoadedGroup(i) ==
    [id |-> i, group_jid |-> groups[i].group_jid,
     last_summary_sync |-> groups[i].last_summary_sync]

\* C10: for every stored group, every list get_messages_since_last_summary
\* may return holds exactly the group's stored messages with timestamp >=
\* last_summary_sync, and every list get_messages_today may return exactly
\* those with timestamp >= the start of today, each in non-decreasing
\* timestamp order
C10_QueryExactAscending ==
    \A i \in 1..Len(groups) :
        /\ \A res \in get_messages_since_last_summary(LoadedGroup(i)) :
              /\ ExactlySince(res, groups[i].group_jid, groups[i].last_summary_sync)
              /\ Ascending(res)
        /\ \A res \in get_messages_today(LoadedGroup(i)) :
              /\ ExactlySince(res, groups[i].group_jid, TodayStart(now))
              /\ Ascending(res)

\* the statement as it was made: the order is strictly ascending
C10_Original ==
    \A i \in 1..Len(groups) :
        /\ \A res \in get_messages_since_last_summary(LoadedGroup(i)) :
              /\ ExactlySince(res, groups[i].group_jid, groups[i].last_summary_sync)
              /\ StrictlyAscending(res)
        /\ \A res \in get_messages_today(LoadedGroup(i)) :
              /\ ExactlySince(res, groups[i].group_jid, TodayStart(now))
              /\ StrictlyAscending(res)

\* a run is summarizing two messages of one group that carry the same
\* timestamp, one of them at the cutoff
C10_Witness ==
    \E r \in Runners :
        /\ run[r].pc = "generate"
        /\ Len(run[r].msgs) = 2
        /\ run[r].msgs[1].timestamp = run[r].msgs[2].timestamp
        /\ ~run[r].force
        /\ run[r].msgs[1].timestamp = run[r].groups[run[r].idx].last_summary_sync

\* the timestamp a message id is stored with
StoredTimestamp(id) ==
    messages[CHOOSE i \in 1..Len(messages) : messages[i].message_id = id].timestamp

\* the window of the group at hand holds more messages than the cap
OverCap(r) ==
    /\ run[r].pc = "generate"
    /\ Cardinality(run[r].sel[run[r].idx]) > MaxMessagesPerSummary

\* C11: when the window of a group holds more than max_messages_per_summary
\* messages, the transcript formatted for the language model has exactly
\* that many lines, of messages of the window, in ascending timestamp order,
\* and no dropped message is later than a retained one; the SummaryLog the
\* call writes counts the retained messages and spans from the first to the
\* last of them
C11_TruncatedToLatest ==
    /\ [](\A r \in Runners :
            OverCap(r) =>
               LET tr == format_messages_for_summary(run[r].msgs)
                   kept == {tr[i].message : i \in 1..Len(tr)}
                   window == run[r].sel[run[r].idx]
               IN  /\ Len(tr) = MaxMessagesPerSummary
                   /\ Cardinality(kept) = MaxMessagesPerSummary
                   /\ kept \subseteq window
                   /\ \A i \in 1..Len(tr) : tr[i].timestamp = StoredTimestamp(tr[i].message)
                   /\ \A a, b \in 1..Len(tr) : a < b => tr[a].timestamp <= tr[b].timestamp
                   /\ \A d \in window \ kept : \A k \in kept :
                         StoredTimestamp(d) <= StoredTimestamp(k))
    /\ [][\A r \in Runners :
            (OverCap(r) /\ Len(logs') = Len(logs) + 1)
            => LET tr == format_messages_for_summary(run[r].msgs)
                   row == logs'[Len(logs')]
               IN  /\ row.group_jid = run[r].groups[run[r].idx].group_jid
                   /\ row.message_count = MaxMessagesPerSummary
                   /\ row.start_time = tr[1].timestamp
                   /\ row.end_time = tr[Len(tr)].timestamp]_vars

\* a summary was written for a window above the cap whose retained messages
\* are later than the dropped one
C11_Witness ==
    \E r \in Runners : \E n \in 1..Len(run[r].out) :
        /\ Cardinality(run[r].sel[n]) > MaxMessagesPerSummary
        /\ \E i \in 1..Len(logs) :
              /\ logs[i].group_jid = run[r].groups[n].group_jid
              /\ logs[i].message_count = MaxMessagesPerSummary
              /\ logs[i].summary_text # ""
              /\ \E d \in run[r].sel[n] : StoredTimestamp(d) < logs[i].start_time

\* the chat the configured recipient is reached at
RecipientChat == <<"+", "9", "@", "c.us">>

\* the positions, in the enumeration of run r, of the groups in its send list
PositionsOf(r, data) ==
    [k \in 1..Len(data) |->
        CHOOSE n \in 1..Len(run[r].groups) : run[r].groups[n].group_jid = data[k].group_jid]

\* the step of run r that sends the consolidated message
SendsSummary(r) ==
    /\ Len(outbox') = Len(outbox) + 1
    /\ outbox'[Len(outbox')].kind = "summary"
    /\ run[r].pc = "send"

\* C12: a run sends a consolidated message only in its send step, which it
\* takes at most once, and only to the configured recipient; the message has
\* one section per entry of the run's send list, in that order; the list gets
\* an entry exactly when the group at hand has just produced a non-empty
\* digest, and never for a skipped or failed group; its entries are of
\* distinct enumerated groups, in the order of enumeration
C12_OneSectionPerDigest ==
    /\ [][(Len(outbox') = Len(outbox) + 1 /\ outbox'[Len(outbox')].kind = "summary")
          => \E r \in Runners :
                /\ SendsSummary(r)
                /\ run[r].sendok = "none"
                /\ run'[r].pc # "send" /\ run'[r].sendok = "ok"
                /\ SubSeq(outbox', 1, Len(outbox)) = outbox
                /\ outbox'[Len(outbox')].to = RecipientChat
                /\ outbox'[Len(outbox')].sections
                      = [k \in 1..Len(run[r].data) |-> run[r].data[k].group_jid]]_vars
    /\ [][\A r \in Runners :
            (run[r].pc \in {"select", "generate", "fetch"} /\ run'[r] # run[r])
            => LET g == run[r].groups[run[r].idx]
                   digest == /\ run[r].pc = "fetch"
                             /\ logs[Len(logs)].group_jid = g.group_jid
                             /\ logs[Len(logs)].summary_text # ""
               IN  IF digest
                   THEN /\ Len(run'[r].data) = Len(run[r].data) + 1
                        /\ SubSeq(run'[r].data, 1, Len(run[r].data)) = run[r].data
                        /\ run'[r].data[Len(run'[r].data)].group_jid = g.group_jid
                        /\ run'[r].data[Len(run'[r].data)].summary_log_id = Len(logs)
                   ELSE run'[r].data = run[r].data]_vars
    /\ [](\A r \in Runners :
            /\ run[r].pc = "send" => run[r].sendok = "none"
            /\ \A k \in 1..Len(run[r].data) :
                  \E n \in 1..Len(run[r].groups) :
                      run[r].groups[n].group_jid = run[r].data[k].group_jid
            /\ \A j, k \in 1..Len(run[r].data) :
                  j < k => PositionsOf(r, run[r].data)[j] < PositionsOf(r, run[r].data)[k])

\* a run over three groups, one of them skipped, has sent a message of
\* exactly two sections
C12_Witness ==
    \E r \in Runners :
        /\ run[r].sendok = "ok"
        /\ Len(run[r].groups) = 3
        /\ \E n \in 1..Len(run[r].out) : run[r].out[n] = "skipped"
        /\ Len(outbox) > 0
        /\ outbox[Len(outbox)].kind = "summary"
        /\ outbox[Len(outbox)].sections
              = <<run[r].groups[1].group_jid, run[r].groups[2].group_jid>>

\* the part of an identifier before its first '@'
RECURSIVE UserPart(_)
UserPart(jid) ==
    IF jid = <<>> \/ Head(jid) = "@" THEN <<>> ELSE <<Head(jid)>> \o UserPart(Tail(jid))

\* the canonical form of an identifier
Canonical(jid) ==
    IF \E i \in 1..Len(UserPart(jid)) : UserPart(jid)[i] = "-"
    THEN UserPart(jid) \o <<"@", "g.us">>
    ELSE UserPart(jid) \o <<"@", "s.whatsapp.net">>

\* identifiers as they may arrive
JidInputs ==
    JidChats \cup JidSenders \cup GroupChats \cup Senders
    \cup { <<>>, <<"1", "-", "2">>, <<"9", "@", "anything">>, <<"@", "g.us">> }

\* the identifiers held by the store and by the deliveries in flight
JidsHeld ==
    {groups[i].group_jid : i \in 1..Len(groups)}
    \cup {task[t].msg.group_jid : t \in {u \in Tasks : task[u].pc # "idle"}}
    \cup {task[t].msg.sender_jid : t \in {u \in Tasks : task[u].pc # "idle"}}

\* C13: normalize_jid gives the part before the first '@' with the group
\* suffix when that part contains a hyphen and with the individual suffix
\* otherwise, whatever suffix the identifier came with; normalizing twice is
\* normalizing once; and a delivery hands on the identifiers of its
\* notification in that form
C13_NormalizeJid ==
    /\ [](\A jid \in JidInputs \cup (JidsHeld \ {NoJid}) :
            /\ normalize_jid(jid) = Canonical(jid)
            /\ normalize_jid(normalize_jid(jid)) = normalize_jid(jid))
    /\ [][\A t \in Tasks : \A data \in Notifications :
            (Deliver(t, data) /\ task'[t].pc = "check")
            => /\ task'[t].msg.group_jid = Canonical(data.groupJID)
               /\ task'[t].msg.sender_jid = Canonical(data.senderJID)]_vars

\* a hyphenated chat that arrived with a foreign suffix is stored in the
\* group form, and a chat without hyphen that arrived with the group suffix
\* in the individual form
C13_Witness ==
    /\ env.kinds = {"jid"}
    /\ \E i \in 1..Len(groups) : groups[i].group_jid = <<"1", "-", "2", "@", "g.us">>
    /\ \E i \in 1..Len(groups) : groups[i].group_jid = <<"9", "@", "s.whatsapp.net">>

\* the outcomes of summarize_group that are failures
Failures == {"failed", "error"}

\* the loop over the enumerated groups is over
LoopOver(r) == run[r].pc \in {"send", "mark", "commit", "done"}

Running(r) == run[r].pc \notin {"idle", "done"}

\* C15: as long as the send list of a run is empty, its steps send no
\* consolidated message, change no Group row and no stored SummaryLog, and
\* write no row that is marked sent; and a run that returns with an empty
\* send list returns False, without having attempted the send
C15_NothingToSend ==
    /\ [][\A r \in Runners :
            (Running(r) /\ run'[r] # run[r] /\ run'[r].data = <<>>)
            => /\ \/ outbox' = outbox
                  \/ /\ Len(outbox') = Len(outbox) + 1
                     /\ outbox'[Len(outbox')].kind # "summary"
               /\ groups' = groups
               /\ Len(logs') >= Len(logs)
               /\ \A i \in 1..Len(logs') :
                     IF i <= Len(logs) THEN logs'[i] = logs[i]
                     ELSE ~logs'[i].sent_successfully
               /\ run'[r].pc = "done" => run'[r].result = "false"]_vars
    /\ [](\A r \in Runners :
            (run[r].pc = "done" /\ run[r].data = <<>>)
            => /\ run[r].result = "false"
               /\ run[r].sendok = "none")

\* a run returned with nothing to send after one group was skipped and the
\* language model failed for another
C15_Witness ==
    \E r \in Runners :
        /\ run[r].pc = "done"
        /\ run[r].data = <<>>
        /\ \E n \in 1..Len(run[r].out) : run[r].out[n] = "skipped"
        /\ \E n \in 1..Len(run[r].out) : run[r].out[n] = "failed"

\* C16: when the language model failed for a group in a non-forced run, the
\* run leaves the group's stored watermark such that the next non-forced
\* query still returns every message of the failed window, also when the
\* digest of another group was sent by the same run
C16_FailedWindowSelectedAgain ==
    \A r \in Runners :
        (run[r].pc = "done" /\ ~run[r].force)
        => \A n \in 1..Len(run[r].out) :
              run[r].out[n] = "failed"
              => LET row == groups[run[r].groups[n].id]
                 IN  run[r].sel[n] \subseteq
                         {messages[i].message_id :
                             i \in StoredSince(row.group_jid, row.last_summary_sync)}

\* run r has selected the window of the group and has not yet returned
BetweenSelectionAndUpdate(r, jid) ==
    /\ Running(r)
    /\ \E n \in 1..Len(run[r].sel) : run[r].groups[n].group_jid = jid

\* C17: no two batch runs are at the same time between their window
\* selection and their watermark update for one group
C17_NoConcurrentRuns ==
    \A r1, r2 \in Runners :
        r1 # r2 =>
            \A i \in 1..Len(groups) :
                ~ ( /\ BetweenSelectionAndUpdate(r1, groups[i].group_jid)
                    /\ BetweenSelectionAndUpdate(r2, groups[i].group_jid) )

(***************************************************************************)
(* C18: the window of a run                                                *)
(***************************************************************************)
\* the timestamp the window of run r starts at for the group it is at
Cutoff(r) ==
    IF run[r].force THEN TodayStart(now)
    ELSE run[r].groups[run[r].idx].last_summary_sync

\* message ids of the stored messages of a group stamped at or after t
IdsSince(jid, t) == {messages[i].message_id : i \in StoredSince(jid, t)}

\* the same, stamped at or after t and not after the clock reading hi
IdsBetween(jid, t, hi) ==
    {messages[i].message_id :
        i \in {k \in StoredSince(jid, t) : messages[k].timestamp <= hi}}

\* run r has just run its window query
Selects(r) ==
    /\ run[r].pc = "select"
    /\ Len(run'[r].sel) = Len(run[r].sel) + 1

TriggerForce ==
    /\ run[0].pc # "idle" => ~run[0].force
    /\ \A t \in Tasks : run[t].pc # "idle" => run[t].force

IsStatsText(text) == Lower(Strip(text)) = <<"stats">>

\* what the handler of task t may have sent when it returns
HandlerSends(t, kinds) ==
    \/ outbox' = outbox
    \/ \E k \in kinds : outbox' = Append(outbox, Sent(task[t].msg.sender_jid, k, <<>>))

\* the handler of task t returns
HandlerReturns(t) ==
    /\ task[t].pc \in {"stats", "cmdrun"}
    /\ task'[t] # task[t]

\* C19: for the authorized sender and a text that is a command keyword, the
\* handler is entered and, whatever it met, ends with "handled": after a
\* failed acknowledgment, a raised or empty batch run or a failed stats query
\* at most one message goes out, to the same sender, an error notification if
\* something failed, and nothing reaches the ingestion caller or the store
C19_AlwaysHandled ==
    [][\A t \in Tasks :
         /\ nDeliv' # nDeliv
            => \A data \in DirectNotifications :
                 /\ (~Unauthorized(data) /\ IsSikumText(data.conversation) /\ Deliver(t, data))
                    => \/ task'[t].pc = "cmdrun"
                       \/ /\ lastDrop' = "handled"
                          /\ task' = task
                          /\ outbox' \in {outbox,
                                Append(outbox,
                                       Sent(normalize_jid(data.senderJID), "error", <<>>))}
                 /\ (~Unauthorized(data) /\ IsStatsText(data.conversation) /\ Deliver(t, data))
                    => task'[t].pc = "stats"
         /\ HandlerReturns(t)
            => /\ lastDrop' = "handled"
               /\ task'[t] = IdleTask
               /\ UNCHANGED <<groups, messages, logs>>
               /\ HandlerSends(t, {"stats", "nomsg", "error"})
               /\ (task[t].pc = "cmdrun" /\ run[t].result = "raised")
                  => HandlerSends(t, {"error"})
               /\ (task[t].pc = "cmdrun" /\ run[t].result = "true")
                  => outbox' = outbox]_vars

\* 'sikum' of the authorized sender was acknowledged, its batch run raised and
\* the error notification could not be sent: the command ended as handled
C19_Witness ==
    /\ lastDrop = "handled"
    /\ outbox = <<Sent(AuthorizedSender, "ack", <<>>)>>
    /\ nRuns = 1
    /\ logs = <<>>
    /\ \A r \in Runners : run[r].pc = "idle"
    /\ \A t \in Tasks : task[t].pc = "idle"
    /\ \E i \in 1..Len(groups) : groups[i].managed

(***************************************************************************)
(* C20: which texts are commands                                           *)
(***************************************************************************)
KeywordTable == <<"sikum", "/summarize", "/summary", "summary", "summarize", "stats">>

HandlerOf(keyword) == IF keyword = "stats" THEN "stats" ELSE "sikum"

\* the text without its leading and trailing spaces, in lower case
Normalized(text) ==
    LET solid == {i \in 1..Len(text) : text[i] # " "}
        first == CHOOSE i \in solid : \A j \in solid : i <= j
        last == CHOOSE i \in solid : \A j \in solid : j <= i
        low(tok) == CASE tok = "SIKUM" -> "sikum" [] tok = "STATS" -> "stats" [] OTHER -> tok
    IN  IF solid = {} THEN <<>>
        ELSE [i \in 1..(last - first + 1) |-> low(text[first + i - 1])]

\* positions in the table of the keywords the text equals or begins with,
\* a space following
MatchingKeywords(text) ==
    LET n == Normalized(text)
    IN  {k \in 1..Len(KeywordTable) :
            /\ Len(n) >= 1
            /\ n[1] = KeywordTable[k]
            /\ Len(n) >= 2 => n[2] = " "}

\* C20: a text of the authorized sender is a command iff, trimmed and in lower
\* case, it equals a keyword of the table or begins with a keyword and a
\* space; then the handler of the first such keyword in table order is entered
\* and no other, otherwise no handler is entered and the message is reported
\* as no command
C20_KeywordMatching ==
    [][\A t \in Tasks :
         nDeliv' # nDeliv
         => \A data \in KeywordNotifications :
              Deliver(t, data)
              => LET hits == MatchingKeywords(data.conversation)
                     first == CHOOSE k \in hits : \A j \in hits : k <= j
                 IN  IF hits = {}
                     THEN /\ lastDrop' = "nocommand"
                          /\ UNCHANGED <<task, run, outbox, nRuns>>
                     ELSE IF HandlerOf(KeywordTable[first]) = "stats"
                     THEN /\ task'[t].pc = "stats"
                          /\ UNCHANGED <<run, outbox, nRuns, lastDrop>>
                     ELSE \/ /\ task'[t].pc = "cmdrun"
                             /\ run'[t].pc = "enum"
                             /\ outbox' = Append(outbox, AckTo(data))
                          \/ /\ lastDrop' = "handled"
                             /\ UNCHANGED <<task, run, nRuns>>]_vars

\* a text that is no command was dropped, and a keyword in upper case with an
\* argument after a space has entered the sikum handler
C20_Witness ==
    /\ lastDrop = "nocommand"
    /\ \E t \in Tasks :
          /\ task[t].pc = "cmdrun"
          /\ task[t].msg.content = <<"SIKUM", " ", "x">>

(***************************************************************************)
(* C21: the text of the canonical message                                  *)
(***************************************************************************)
\* the first text of the list that is not empty, or the empty text
RECURSIVE FirstNonEmpty(_)
FirstNonEmpty(texts) ==
    IF texts = <<>> THEN NoText
    ELSE IF Head(texts) # NoText THEN Head(texts)
    ELSE FirstNonEmpty(Tail(texts))

\* the text and the kind the notification's body stands for
ExpectedContent(body) ==
    LET found == FirstNonEmpty(<< DictGet(body.textMessageData, "textMessage", NoText),
                                  DictGet(body.extendedTextMessageData, "text", NoText),
                                  DictGet(body.imageMessageData, "caption", NoText),
                                  DictGet(body.videoMessageData, "caption", NoText) >>)
    IN  IF found # NoText THEN found
        ELSE IF body.documentMessageData # EmptyDict THEN <<"[Document]">>
        ELSE NoText

NotApplicable(body) == body.idMessage = "" \/ ExpectedContent(body) = NoText

\* C21: the canonical message of a notification carries the first non-empty
\* of plain text, quoted text, image caption and video caption, a
\* document-only message the placeholder; the notification is dropped as not
\* applicable exactly when its id is missing or that text is empty
C21_TextExtraction ==
    [][\A t \in Tasks :
         nDeliv' # nDeliv
         => \A body \in Bodies :
              Deliver(t, handle_incoming_message(body))
              => IF NotApplicable(body)
                 THEN lastDrop' = "unparsed" /\ task' = task
                 ELSE IF body.chatId = ChatD7
                 THEN lastDrop' = "unauthorized" /\ task' = task
                 ELSE /\ task'[t].pc = "check"
                      /\ task'[t].msg.content = ExpectedContent(body)]_vars

(***************************************************************************)
(* C22: group or direct                                                    *)
(***************************************************************************)
GroupSuffix == <<"@", "g.us">>

\* the notification is of a group chat and carries a text
GroupBody(body) ==
    /\ EndsWith(body.chatId, GroupSuffix)
    /\ body.idMessage # ""
    /\ DictGet(body.textMessageData, "textMessage", NoText) # NoText

DirectBody(body) ==
    /\ ~EndsWith(body.chatId, GroupSuffix)
    /\ body.idMessage # ""
    /\ DictGet(body.textMessageData, "textMessage", NoText) # NoText

\* C22: a notification whose chat identifier ends with the group suffix is
\* handled as a group message and the group identifier kept for it ends with
\* the group suffix, with or without a hyphen in it; one without the group
\* suffix is handled as a direct message
C22_OriginClassification ==
    /\ [][\A t \in Tasks :
            nDeliv' # nDeliv
            => \A body \in Bodies :
                 Deliver(t, handle_incoming_message(body))
                 => /\ GroupBody(body)
                       => /\ task'[t].pc = "check"
                          /\ EndsWith(task'[t].msg.group_jid, GroupSuffix)
                    /\ DirectBody(body)
                       => /\ task' = task
                          /\ lastDrop' \in {"unauthorized", "nocommand", "handled"}]_vars
    /\ [](\A i \in 1..Len(groups) : EndsWith(groups[i].group_jid, GroupSuffix))
    /\ [](\A i \in 1..Len(messages) : EndsWith(messages[i].group_jid, GroupSuffix))

(***************************************************************************)
(* C23, C24: group names                                                   *)
(***************************************************************************)
\* task t stores its message in this step
Stores(t) ==
    /\ task[t].pc = "insert"
    /\ Len(messages') = Len(messages) + 1

RowsOf(gs, jid) == {i \in 1..Len(gs) : gs[i].group_jid = jid}

\* the group that is stored from the start, under another name or under none
KnownGroup == normalize_jid(ChatG2)

\* C23: when a group message is stored, its group has a row; if the group
\* existed before, the row now carries the name the notification gave, and if
\* it did not, the row was created as managed
C23_NameUpdatedOnIngestion ==
    [][\A t \in Tasks :
         Stores(t)
         => LET jid == task[t].msg.group_jid
            IN  /\ RowsOf(groups', jid) # {}
                /\ \A i \in RowsOf(groups', jid) :
                      IF jid = KnownGroup
                      THEN groups'[i].group_name = ChatName(ChatG2)
                      ELSE groups'[i].managed]_vars

KnownName(name) == name \notin {NoName, EmptyName}

\* C24: no step replaces a stored group name that is known by an unknown or
\* an empty one
C24_KnownNameKept ==
    [][\A i \in 1..Len(groups) :
         KnownName(groups[i].group_name) => KnownName(groups'[i].group_name)]_vars

(***************************************************************************)
(* C25: the bot's own messages                                             *)
(***************************************************************************)
\* the messages of the transcript run r hands to the LLM
TranscriptOf(r) == IF run[r].pc = "generate" THEN run[r].msgs ELSE <<>>

Invocations(r) == run[r].attempt + 1

\* C26: while a group is in generation the model has been invoked at least
\* once and at most GenerateAttempts times; a step of that group either
\* retries after a failure below the ceiling, writing nothing, or leaves
\* generation for good with exactly one row of that group appended: the
\* summary row after a success, whatever the failures before it, the failure
\* row only after the failure of the last allowed attempt; and the run goes
\* on with the same list of groups instead of returning
C26_BoundedGeneration ==
    /\ [](\A r \in Runners : run[r].pc = "generate"
              => Invocations(r) >= 1 /\ Invocations(r) <= GenerateAttempts)
    /\ [][\A r \in Runners :
            (run[r].pc = "generate" /\ run'[r] # run[r])
            => \/ /\ run'[r].pc = "generate"
                  /\ run'[r].idx = run[r].idx
                  /\ Invocations(r)' = Invocations(r) + 1
                  /\ Invocations(r) < GenerateAttempts
                  /\ logs' = logs
               \/ /\ run'[r].pc # "generate"
                  /\ run'[r].attempt = 0
                  /\ Len(logs') = Len(logs) + 1
                  /\ SubSeq(logs', 1, Len(logs)) = logs
                  /\ logs'[Len(logs')].group_jid = CurrentGroup(r).group_jid
                  /\ \/ /\ logs'[Len(logs')].error_message = "none"
                        /\ run'[r].pc = "fetch"
                        /\ run'[r].idx = run[r].idx
                     \/ /\ logs'[Len(logs')].error_message = "error"
                        /\ logs'[Len(logs')].summary_text = ""
                        /\ Invocations(r) = GenerateAttempts
                        /\ IF run[r].idx < Len(run[r].groups)
                           THEN run'[r].pc = "select" /\ run'[r].idx = run[r].idx + 1
                           ELSE run'[r].pc \in {"send", "done"}
                  /\ run'[r].groups = run[r].groups]_vars

\* a run whose first group failed at its last attempt, with the failure row
\* stored, is at the last allowed attempt for its second group
C26_Witness ==
    \E r \in Runners :
        /\ run[r].pc = "generate"
        /\ Invocations(r) = GenerateAttempts
        /\ run[r].idx = 2
        /\ run[r].out = <<"failed">>
        /\ \E i \in 1..Len(logs) : /\ logs[i].error_message = "error"
                                   /\ logs[i].group_jid = run[r].groups[1].group_jid


\* ---------------------------------------------------------------------
\* C27: the callback hands the notification to the loop

\* what the processing of notifications can change
Processed == <<groups, messages, logs, task, run, outbox, emb>>

\* C27: the step in which the receiver's callback takes a notification
\* changes nothing that processing changes: with a loop it at most appends
\* the formatted notification to the loop's submissions, without one it
\* leaves them as they are; a coroutine of process_message starts only by
\* taking the oldest submission, and then works on that notification; and
\* as long as there is no loop nothing is submitted, stored, sent or started
C27_CallbackHandsOff ==
    /\ [][ /\ nDeliv' # nDeliv
              => /\ UNCHANGED Processed
                 /\ IF inbox.loop
                    THEN \/ inbox' = inbox
                         \/ \E body \in CallbackBodies :
                               inbox' = [inbox EXCEPT !.pending =
                                            Append(@, handle_incoming_message(body))]
                    ELSE inbox' = inbox
           /\ (Processed' # Processed /\ \A t \in Tasks : task[t].pc = "idle")
              => /\ inbox.pending # <<>>
                 /\ inbox'.pending = Tail(inbox.pending)
                 /\ nDeliv' = nDeliv
           /\ \A t \in Tasks :
                 (task[t].pc = "idle" /\ task'[t].pc # "idle")
                 => /\ inbox.pending # <<>>
                    /\ task'[t].msg = parse_message_data(Head(inbox.pending)) ]_vars
    /\ [](~inbox.loop => /\ inbox.pending = <<>>
                         /\ groups = <<>> /\ messages = <<>> /\ outbox = <<>>
                         /\ \A t \in Tasks : task[t].pc = "idle")

\* the callback has returned twice, its second notification waiting for the
\* loop, while the coroutine of the first is suspended in its save
C27_Witness ==
    /\ inbox.loop
    /\ nDeliv = 2
    /\ Len(inbox.pending) = 1
    /\ \E t \in Tasks : task[t].pc = "insert"


\* ---------------------------------------------------------------------
\* C28: the embedding queue

\* how often the row with primary key id was put on the embedding queue
TimesPut(id) == Cardinality({k \in 1..Len(emb.put) : emb.put[k] = id})

Waiting(id) == \E k \in 1..Len(emb.queue) : emb.queue[k] = id

C29_SaveErrorDrops ==
    [][\A t \in Tasks :
         SaveError(t)
         => /\ messages' = messages
            /\ emb' = emb
            /\ task'[t] = IdleTask]_vars


\* ---------------------------------------------------------------------
\* C30: the on-demand summary command

\* the run has looked at every enumerated group and selected no message
ZeroFound(r) ==
    /\ Len(run[r].sel) = Len(run[r].groups)
    /\ \A n \in 1..Len(run[r].sel) : run[r].sel[n] = {}

\* C30: the step that starts the forced run of a summary command has sent
\* the acknowledgment to the requester as the message before; the handler
\* goes on only when that run has returned; when the run selected no message
\* in any managed group it returned False, and the handler then sends the
\* requester the 'no messages' notification, or, that send raising, tries the
\* error notification; and every 'no messages' notification in the outbox
\* has the acknowledgment to the same requester before it
C30_SikumSequence ==
    /\ [][\A t \in Tasks :
            /\ (task[t].pc # "cmdrun" /\ task'[t].pc = "cmdrun")
               => /\ outbox' = Append(outbox, Sent(task'[t].msg.sender_jid, "ack", <<>>))
                  /\ run[t].pc = "idle"
                  /\ run'[t] = StartedRun(TRUE)
            /\ (task[t].pc = "cmdrun" /\ task'[t].pc # "cmdrun")
               => /\ run[t].pc = "done"
                  /\ ZeroFound(t)
                     => /\ run[t].result = "false"
                        /\ outbox' \in
                             {Append(outbox, Sent(task[t].msg.sender_jid, "nomsg", <<>>)),
                              Append(outbox, Sent(task[t].msg.sender_jid, "error", <<>>)),
                              outbox} ]_vars
    /\ [](\A i \in 1..Len(outbox) :
             outbox[i].kind = "nomsg"
             => \E k \in 1..(i - 1) : outbox[k].kind = "ack" /\ outbox[k].to = outbox[i].to)

\* a command was acknowledged, its forced run found no message of today in
\* any managed group, and the requester was told so
C30_Witness ==
    /\ Len(outbox) = 2
    /\ outbox[1].kind = "ack"
    /\ outbox[2].kind = "nomsg"
    /\ outbox[2].to = outbox[1].to
    /\ Len(messages) >= 1
    /\ logs = <<>>
    /\ \A t \in Tasks : task[t].pc = "idle"


\* ---------------------------------------------------------------------
\* C31: direct messages are not stored

\* the step belongs to the processing of a direct message: it is the
\* delivery of one, or a step of the command that one has started, the run
\* of a summary command included
DirectStep ==
    \E t \in Tasks :
        \/ /\ nDeliv' # nDeliv
           /\ \E data \in Notifications : data.groupJID = NoJid /\ Deliver(t, data)
        \/ /\ task[t].pc \in {"stats", "cmdrun"}
           /\ task'[t] # task[t] \/ run'[t] # run[t]

\* every stored message names a group, and that group has a row
StoredInGroups ==
    \A i \in 1..Len(messages) :
        messages[i].group_jid # NoJid /\ GroupExists(messages[i].group_jid)

SameButWatermark(g, h) == [g EXCEPT !.last_summary_sync = h.last_summary_sync] = h

C32_WatermarkMonotone ==
    [][/\ Len(groups') >= Len(groups)
       /\ \A i \in 1..Len(groups) :
             /\ groups'[i].group_jid = groups[i].group_jid
             /\ groups'[i].last_summary_sync >= groups[i].last_summary_sync]_vars


\* ---------------------------------------------------------------------
\* C33: two concurrent deliveries of one message id

\* the coroutine has passed its existence check and the same message, of the
\* same group, has been stored by another delivery since
Loser(t) ==
    /\ task[t].pc \in {"ensure", "mkgroup", "insert"}
    /\ \E i \in 1..Len(messages) :
          /\ messages[i].message_id = task[t].msg.message_id
          /\ messages[i].group_jid = task[t].msg.group_jid

\* what the losing delivery leaves alone in every case
LoserStoresNothing ==
    [][\A t \in Tasks :
         (Loser(t) /\ task'[t] # task[t])
         => /\ messages' = messages
            /\ groups' = groups
            /\ emb' = emb]_vars

\* C33: a step of the delivery that lost the race stores no message, creates
\* no group and puts no embedding item, and the delivery ends without
\* running into a persistence error
C33_LoserSilent ==
    /\ LoserStoresNothing
    /\ [][\A t \in Tasks :
            (Loser(t) /\ task'[t] # task[t]) => lastDrop' # "integrity"]_vars


\* ---------------------------------------------------------------------
\* C34: messages stored while a run is in progress

\* the start of the window the run selected for its n-th group, or a later
\* time: the loaded watermark, for a forced run the start of the day
WindowStart(r, n) ==
    IF run[r].force THEN TodayStart(now) ELSE run[r].groups[n].last_summary_sync

\* the rows of the run's n-th group that fall into that window and were not
\* selected: they were stored after the selection
StoredAfterSelection(r, n) ==
    {i \in StoredSince(run[r].groups[n].group_jid, WindowStart(r, n)) :
        messages[i].message_id \notin run[r].sel[n]}

\* C34: when a run commits the watermarks, every message of an enumerated
\* group that was stored after the run had selected that group's window is
\* at or after the group's new watermark, so that the next non-forced run
\* selects it
C34_StoredDuringRunNotLost ==
    [][\A r \in Runners :
         (run[r].pc = "commit" /\ run'[r].pc # "commit" /\ groups' # groups)
         => \A n \in 1..Len(run[r].groups) :
               \A i \in StoredAfterSelection(r, n) :
                  messages[i].timestamp >= groups'[run[r].groups[n].id].last_summary_sync]_vars


\* ---------------------------------------------------------------------
\* C35: the watermark after a forced run

\* the rows of the run's n-th group from the loaded watermark on that lie
\* before the day in which the run commits and that the run did not select
BeforeToday(r, n) ==
    {i \in StoredSince(run[r].groups[n].group_jid, run[r].groups[n].last_summary_sync) :
        /\ messages[i].timestamp < TodayStart(run[r].syncAt)
        /\ messages[i].message_id \notin run[r].sel[n]}

\* C35: when a forced run commits the watermarks after its send, every
\* stored message of an enumerated group that the run did not cover, with a
\* timestamp from the group's previous watermark on and before the start of
\* the day, is at or after the group's new watermark, so that the next
\* non-forced run selects it
C35_ForcedRunKeepsUncovered ==
    [][\A r \in Runners :
         (run[r].force /\ run[r].pc = "commit" /\ run'[r].pc # "commit" /\ groups' # groups)
         => \A n \in 1..Len(run[r].groups) :
               \A i \in BeforeToday(r, n) :
                  messages[i].timestamp >= groups'[run[r].groups[n].id].last_summary_sync]_vars


\* ---------------------------------------------------------------------
\* C36: the digests of overlapping runs

\* C36: every digest a run holds in its send list, and so puts into its
\* consolidated message and marks as sent, is a summary row that this run
\* wrote itself
C36_OwnDigestOnly ==
    \A r \in Runners :
        \A k \in 1..Len(run[r].data) : run[r].data[k].summary_log_id \in run[r].wrote


\* ---------------------------------------------------------------------
\* C37: the configured recipient as sender

\* C37: a direct message whose sender is the configured recipient's number
\* in the provider's inbound form is never turned away as unauthorized: the
\* recipient's number compares equal to the authorized identifier, and the
\* delivery of such a message does not end as unauthorized
C37_RecipientAuthorized ==
    [][\A t \in Tasks : \A data \in DirectNotifications :
         (data.senderJID = InboundSender /\ Deliver(t, data))
         => /\ IsAuthorized(data.senderJID)
            /\ ~(lastDrop' = "unauthorized" /\ task' = task /\ outbox' = outbox)]_vars


\* ---------------------------------------------------------------------
\* C38: when the 'no messages' notification is sent

\* C38: the step that sends the 'no messages' notification of a summary
\* command follows a forced run that selected no message in any managed
\* group
C38_NoMessagesOnlyWhenNone ==
    [][\A t \in Tasks :
         ( /\ task[t].pc = "cmdrun"
           /\ outbox' = Append(outbox, Sent(task[t].msg.sender_jid, "nomsg", <<>>)) )
         => ZeroFound(t)]_vars


\* ---------------------------------------------------------------------
\* C39: commands are recognized in direct messages only

\* C39: the delivery of a group message whose text is a command keyword,
\* sent by the authorized sender, starts no command handler and no batch
\* run and sends nothing: the coroutine goes on to save the message, as
\* for any group message
C39_GroupKeywordIsNoCommand ==
    [][\A t \in Tasks : \A data \in GroupCommandNotifications :
         (nDeliv' # nDeliv /\ Deliver(t, data))
         => /\ CommandOf(normalize_jid(data.senderJID), data.conversation) \in {"sikum", "stats"}
            /\ task'[t] = [pc |-> "check", msg |-> parse_message_data(data), born |-> 0]
            /\ outbox' = outbox
            /\ run' = run
            /\ nRuns' = nRuns
            /\ logs' = logs]_vars

\* a keyword message of the authorized sender is a row of its group, nothing
\* was sent and no run was started
C39_Witness ==
    /\ \E i \in 1..Len(messages) :
         /\ messages[i].message_id = "m2"
         /\ messages[i].sender_jid = normalize_jid(AuthorizedSender)
         /\ messages[i].group_jid = normalize_jid(ChatG1)
    /\ outbox = <<>>
    /\ nRuns = 0
    /\ \A t \in Tasks : task[t].pc = "idle"


\* ---------------------------------------------------------------------
\* C40: the SummaryLog rows that are marked sent

\* the row is a section of a consolidated message that went out
InConfirmedSend(row) ==
    \E j \in 1..Len(outbox) :
        /\ outbox[j].kind = "summary"
        /\ \E s \in 1..Len(outbox[j].sections) : outbox[j].sections[s] = row.group_jid

SentRowsSound ==
    \A i \in 1..Len(logs) :
        logs[i].sent_successfully
        => /\ logs[i].summary_text # ""
           /\ logs[i].error_message = "none"
           /\ InConfirmedSend(logs[i])

\* the table only grows, and a row changes in nothing but its mark, from
\* unsent to sent
LogsAppendOnly ==
    /\ Len(logs') >= Len(logs)
    /\ \A i \in 1..Len(logs) :
         \/ logs'[i] = logs[i]
         \/ /\ ~logs[i].sent_successfully
            /\ logs[i].error_message = "none"
            /\ logs'[i] = [logs[i] EXCEPT !.sent_successfully = TRUE]

\* C40: in every reachable state a SummaryLog marked sent has a summary
\* text, no error message and a section in a consolidated message that was
\* sent; no step deletes a row, clears a mark or marks a failed row
C40_SentRows == []SentRowsSound /\ [][LogsAppendOnly]_vars

\* the table holds a failed row, unsent, and a row with a summary that was
\* sent and marked; every run is over
C40_Witness ==
    /\ \E i \in 1..Len(logs) : logs[i].sent_successfully /\ logs[i].summary_text = "digest"
    /\ \E i \in 1..Len(logs) : ~logs[i].sent_successfully /\ logs[i].error_message = "error"
    /\ \A r \in Runners : run[r].pc = "idle"

=============================================================================
